---- MODULE Spec2Model ----
(***************************************************************************)
(* GEMx seed placement: the scoring engines.                               *)
(*                                                                         *)
(*   src/backend/app/services/scoring.py   the structured ScoringEngine    *)
(*   src/app.py                            the dict-based scorers,         *)
(*                                         score_products_for_field and    *)
(*                                         the per-field management        *)
(*   src/gemx_llm.py                       generate_field_reasons          *)
(*   src/backend/app/services/feature_extraction.py                        *)
(*                                         the derive_* functions          *)
(*                                                                         *)
(* Python floats are modelled as exact rationals <<n, d>> in lowest terms  *)
(* with d > 0, so a decimal literal such as 0.85 is Rat(85, 100).          *)
(***************************************************************************)
EXTENDS Integers, Sequences, FiniteSets, TLC

VARIABLES
    fn,             \* the function being called
    args,           \* its arguments
    pc,             \* "call" until the function has run, then "done"
    out,            \* its return value, meaningful once pc = "done"
    calls,          \* the score_func calls the function made, in order
    corn_hybrids,   \* corn_hybrids["hybrids"], loaded once at import
    soy_varieties,  \* soy_varieties["varieties"], loaded once at import
    history,        \* the scoring calls completed so far: fn, args, out;
                    \* on the management page, per field key the values
                    \* the last Lock press captured
    default_management,  \* main: the management dict built from the sidebar
    session_state,  \* st.session_state: widget key -> value
    selected_fields \* main: the field records selected for this run

vars == <<fn, args, pc, out, calls, corn_hybrids, soy_varieties, history,
          default_management, session_state, selected_fields>>

globals == <<corn_hybrids, soy_varieties, default_management, session_state,
             selected_fields>>

NoValue == <<>>

\* the state of the page outside a run of main: no sidebar dict, an empty
\* st.session_state, no field selected
NoSession ==
    /\ default_management = NoValue
    /\ session_state = <<>>
    /\ selected_fields = <<>>

\* Python's None for an optional number: a value no rating or GDD sum takes
None == -1

----------------------------------------------------------------------------
(* Float arithmetic, as exact rationals.                                   *)

Abs(x) == IF x < 0 THEN -x ELSE x

RECURSIVE GCD(_, _)
GCD(a, b) == IF b = 0 THEN a ELSE GCD(b, a % b)

Rat(n, d) == LET g == GCD(Abs(n), d) IN <<n \div g, d \div g>>

RInt(i) == <<i, 1>>

RAdd(a, b) ==
    LET g == GCD(a[2], b[2])
    IN  Rat(a[1] * (b[2] \div g) + b[1] * (a[2] \div g), (a[2] \div g) * b[2])

RNeg(a) == <<-a[1], a[2]>>

RSub(a, b) == RAdd(a, RNeg(b))

RMul(a, b) ==
    LET g1 == GCD(Abs(a[1]), b[2])
        g2 == GCD(Abs(b[1]), a[2])
    IN  Rat((a[1] \div g1) * (b[1] \div g2), (a[2] \div g2) * (b[2] \div g1))

RInv(a) == IF a[1] > 0 THEN <<a[2], a[1]>> ELSE <<-a[2], -a[1]>>

RDiv(a, b) == RMul(a, RInv(b))

RLt(a, b) == a[1] * b[2] < b[1] * a[2]

RLeq(a, b) == a[1] * b[2] <= b[1] * a[2]

RMax(a, b) == IF RLt(a, b) THEN b ELSE a

RMin(a, b) == IF RLt(b, a) THEN b ELSE a

----------------------------------------------------------------------------
(* ScoringEngine.score_maturity_fit                                        *)

\* variant: the window test rejects the two edges as well (<= and >=)
score_maturity_fit_open_edges(product_maturity, target_range) ==
    LET min_rm     == target_range[1]
        optimal_rm == target_range[2]
        max_rm     == target_range[3]
        distance   ==
            IF RLeq(product_maturity, optimal_rm)
            THEN RDiv(RSub(optimal_rm, product_maturity),
                      RMax(RSub(optimal_rm, min_rm), RInt(1)))
            ELSE RDiv(RSub(product_maturity, optimal_rm),
                      RMax(RSub(max_rm, optimal_rm), RInt(1)))
    IN  IF RLeq(product_maturity, min_rm) \/ RLeq(max_rm, product_maturity)
        THEN RInt(0)
        ELSE RSub(RInt(1), RMul(Rat(3, 10), distance))

score_maturity_fit(product_maturity, target_range) ==
    LET min_rm     == target_range[1]
        optimal_rm == target_range[2]
        max_rm     == target_range[3]
        distance   ==
            IF RLeq(product_maturity, optimal_rm)
            THEN RDiv(RSub(optimal_rm, product_maturity),
                      RMax(RSub(optimal_rm, min_rm), RInt(1)))
            ELSE RDiv(RSub(product_maturity, optimal_rm),
                      RMax(RSub(max_rm, optimal_rm), RInt(1)))
    IN  IF RLt(product_maturity, min_rm) \/ RLt(max_rm, product_maturity)
        THEN RInt(0)
        ELSE RSub(RInt(1), RMul(Rat(3, 10), distance))

(* ScoringEngine.match_tolerance_to_risk                                   *)

\* variant: the two under-tolerance penalties lose their max(...) floors
match_tolerance_to_risk_no_floor(tolerance_rating, risk_level) ==
    IF tolerance_rating = None
    THEN Rat(5, 10)
    ELSE
        LET normalized_tolerance == Rat(tolerance_rating, 9)
        IN  IF RLt(risk_level, Rat(3, 10))
            THEN RAdd(Rat(7, 10), RMul(Rat(3, 10), normalized_tolerance))
            ELSE IF RLt(risk_level, Rat(7, 10))
            THEN
                IF RLeq(risk_level, normalized_tolerance)
                THEN RAdd(Rat(85, 100),
                          RMul(Rat(15, 100),
                               RSub(normalized_tolerance, risk_level)))
                ELSE RSub(Rat(85, 100),
                          RMul(RSub(risk_level, normalized_tolerance), Rat(15, 10)))
            ELSE
                IF RLeq(Rat(7, 10), normalized_tolerance)
                THEN RAdd(Rat(9, 10),
                          RDiv(RMul(Rat(1, 10),
                                    RSub(normalized_tolerance, Rat(7, 10))),
                               Rat(3, 10)))
                ELSE RSub(Rat(9, 10),
                          RMul(RSub(Rat(7, 10), normalized_tolerance), RInt(2)))

\* variant: the regime tests are <= 0.3 and <= 0.7, so a boundary risk falls
\* into the lower regime
match_tolerance_to_risk_low_boundary(tolerance_rating, risk_level) ==
    IF tolerance_rating = None
    THEN Rat(5, 10)
    ELSE
        LET normalized_tolerance == Rat(tolerance_rating, 9)
        IN  IF RLeq(risk_level, Rat(3, 10))
            THEN RAdd(Rat(7, 10), RMul(Rat(3, 10), normalized_tolerance))
            ELSE IF RLeq(risk_level, Rat(7, 10))
            THEN
                IF RLeq(risk_level, normalized_tolerance)
                THEN RAdd(Rat(85, 100),
                          RMul(Rat(15, 100),
                               RSub(normalized_tolerance, risk_level)))
                ELSE RMax(Rat(3, 10),
                          RSub(Rat(85, 100),
                               RMul(RSub(risk_level, normalized_tolerance),
                                    Rat(15, 10))))
            ELSE
                IF RLeq(Rat(7, 10), normalized_tolerance)
                THEN RAdd(Rat(9, 10),
                          RDiv(RMul(Rat(1, 10),
                                    RSub(normalized_tolerance, Rat(7, 10))),
                               Rat(3, 10)))
                ELSE RMax(Rat(2, 10),
                          RSub(Rat(9, 10),
                               RMul(RSub(Rat(7, 10), normalized_tolerance),
                                    RInt(2))))

match_tolerance_to_risk(tolerance_rating, risk_level) ==
    IF tolerance_rating = None
    THEN Rat(5, 10)
    ELSE
        LET normalized_tolerance == Rat(tolerance_rating, 9)
        IN  IF RLt(risk_level, Rat(3, 10))
            THEN RAdd(Rat(7, 10), RMul(Rat(3, 10), normalized_tolerance))
            ELSE IF RLt(risk_level, Rat(7, 10))
            THEN
                LET tolerance_needed == risk_level
                IN  IF RLeq(tolerance_needed, normalized_tolerance)
                    THEN RAdd(Rat(85, 100),
                              RMul(Rat(15, 100),
                                   RSub(normalized_tolerance, tolerance_needed)))
                    ELSE
                        LET gap == RSub(tolerance_needed, normalized_tolerance)
                        IN  RMax(Rat(3, 10),
                                 RSub(Rat(85, 100), RMul(gap, Rat(15, 10))))
            ELSE
                IF RLeq(Rat(7, 10), normalized_tolerance)
                THEN RAdd(Rat(9, 10),
                          RDiv(RMul(Rat(1, 10),
                                    RSub(normalized_tolerance, Rat(7, 10))),
                               Rat(3, 10)))
                ELSE
                    LET gap == RSub(Rat(7, 10), normalized_tolerance)
                    IN  RMax(Rat(2, 10),
                             RSub(Rat(9, 10), RMul(gap, RInt(2))))

----------------------------------------------------------------------------
(* scoring.py: aggregation of the structured engine.  The parallel lists   *)
(* scores and weights are one sequence of <<score, weight>> pairs.         *)

\* Python's None for an optional string (scn_source)
NoneStr == "<None>"

RECURSIVE SumWeights(_)
SumWeights(pairs) ==
    IF pairs = <<>> THEN RInt(0)
    ELSE RAdd(pairs[1][2], SumWeights(Tail(pairs)))

RECURSIVE SumProducts(_)
SumProducts(pairs) ==
    IF pairs = <<>> THEN RInt(0)
    ELSE RAdd(RMul(pairs[1][1], pairs[1][2]), SumProducts(Tail(pairs)))

weighted_average(pairs) ==
    IF pairs = <<>> THEN RInt(0)
    ELSE IF SumWeights(pairs) = RInt(0) THEN RInt(0)
    ELSE RDiv(SumProducts(pairs), SumWeights(pairs))

\* "if not scores: return 0.8", else the weighted average
Aggregate(pairs) == IF pairs = <<>> THEN Rat(8, 10) ELSE weighted_average(pairs)

\* the (score, weight) pair of one sub-factor if it is taken into account
Factor(included, score, weight) == IF included THEN <<<<score, weight>>>> ELSE <<>>

\* variant: the emergence pair weighted by its risk alone
score_stress_tolerance_plain_weight(product, requirements) ==
    Aggregate(
        Factor(RLt(Rat(2, 10), requirements.drought_risk),
               match_tolerance_to_risk(product.drought_tolerance,
                                       requirements.drought_risk),
               requirements.drought_risk)
        \o Factor(RLt(Rat(3, 10), requirements.emergence_challenge),
                  match_tolerance_to_risk(product.emergence_vigor,
                                          requirements.emergence_challenge),
                  requirements.emergence_challenge))

score_stress_tolerance(product, requirements) ==
    Aggregate(
        Factor(RLt(Rat(2, 10), requirements.drought_risk),
               match_tolerance_to_risk(product.drought_tolerance,
                                       requirements.drought_risk),
               requirements.drought_risk)
        \o Factor(RLt(Rat(3, 10), requirements.emergence_challenge),
                  match_tolerance_to_risk(product.emergence_vigor,
                                          requirements.emergence_challenge),
                  RMul(requirements.emergence_challenge, Rat(7, 10))))

\* one entry of disease_ratings: counted when rated and risk > 0.1
DiseaseFactor(rating, risk) ==
    Factor(rating # None /\ RLt(Rat(1, 10), risk),
           match_tolerance_to_risk(rating, risk), risk)

score_disease_tolerance_corn(product, requirements) ==
    Aggregate(
        DiseaseFactor(product.gray_leaf_spot, requirements.gls_risk)
        \o DiseaseFactor(product.northern_leaf_blight, requirements.nclb_risk)
        \o DiseaseFactor(product.tar_spot, requirements.tar_spot_risk)
        \o DiseaseFactor(product.gosss_wilt, requirements.gosss_wilt_risk))

\* source_history[-k:]
LastK(source_history, k) ==
    IF Len(source_history) <= k THEN source_history
    ELSE SubSeq(source_history, Len(source_history) - k + 1, Len(source_history))

InSeq(x, seq) == \E i \in 1..Len(seq) : seq[i] = x

Count(x, seq) == Cardinality({i \in 1..Len(seq) : seq[i] = x})

\* base_scores.get(scn_source, 0.5)
ScnBaseScore(scn_source) ==
    CASE scn_source = "PI 88788"  -> Rat(7, 10)
      [] scn_source = "Peking"    -> Rat(85, 100)
      [] scn_source = "PI 89772"  -> Rat(8, 10)
      [] scn_source = "PI 437654" -> Rat(9, 10)
      [] scn_source = "Hartwig"   -> Rat(85, 100)
      [] scn_source = "None"      -> Rat(1, 10)
      [] scn_source = NoneStr     -> Rat(1, 10)
      [] OTHER                    -> Rat(5, 10)

\* the score after the rotation penalty (scoring.py lines 183-187)
ScnPenalised(scn_source, source_history) ==
    IF source_history # <<>> /\ InSeq(scn_source, LastK(source_history, 3))
    THEN RMul(ScnBaseScore(scn_source),
              RSub(RInt(1),
                   RMul(Rat(1, 10),
                        RInt(Count(scn_source, LastK(source_history, 3))))))
    ELSE ScnBaseScore(scn_source)

\* variant: the bonus looks at source_history[-1:] only
score_scn_resistance_bonus_last_one(scn_source, risk, source_history) ==
    IF source_history # <<>> /\ ~InSeq(scn_source, LastK(source_history, 1))
    THEN RMin(RInt(1), RMul(ScnPenalised(scn_source, source_history),
                            Rat(11, 10)))
    ELSE ScnPenalised(scn_source, source_history)

score_scn_resistance(scn_source, risk, source_history) ==
    IF source_history # <<>> /\ ~InSeq(scn_source, LastK(source_history, 2))
    THEN RMin(RInt(1), RMul(ScnPenalised(scn_source, source_history),
                            Rat(11, 10)))
    ELSE ScnPenalised(scn_source, source_history)

score_disease_tolerance_soybean(product, requirements) ==
    Aggregate(
        DiseaseFactor(product.sds_rating, requirements.sds_risk)
        \o DiseaseFactor(product.phytophthora_field, requirements.phytophthora_risk)
        \o DiseaseFactor(product.white_mold, requirements.white_mold_risk)
        \o DiseaseFactor(product.frogeye_leaf_spot, requirements.frogeye_risk)
        \o Factor(RLt(Rat(3, 10), requirements.scn_risk),
                  score_scn_resistance(product.scn_source, requirements.scn_risk,
                                       requirements.scn_source_history),
                  RMul(requirements.scn_risk, Rat(15, 10)))
        \o Factor(RLt(Rat(3, 10), requirements.idc_risk)
                      /\ product.idc_tolerance # None,
                  match_tolerance_to_risk(product.idc_tolerance,
                                          requirements.idc_risk),
                  RMul(requirements.idc_risk, Rat(15, 10))))

\* "rating or 5"
OrFive(rating) == IF rating = None THEN 5 ELSE rating

score_agronomics_corn(product, requirements) ==
    Aggregate(
        Factor(RLt(Rat(3, 10), requirements.standability_need),
               RDiv(RAdd(Rat(OrFive(product.stalk_strength), 9),
                         Rat(OrFive(product.root_strength), 9)),
                    RInt(2)),
               requirements.standability_need)
        \o Factor(RLt(Rat(3, 10), requirements.late_harvest_risk)
                      /\ product.drydown # None,
                  Rat(product.drydown, 9),
                  RMul(requirements.late_harvest_risk, Rat(8, 10)))
        \o Factor(product.test_weight # None,
                  Rat(product.test_weight, 9), Rat(3, 10)))

score_agronomics_soybean(product, requirements) ==
    Aggregate(
        Factor(RLt(Rat(3, 10), requirements.lodging_risk)
                   /\ product.lodging_resistance # None,
               Rat(product.lodging_resistance, 9),
               requirements.lodging_risk))

\* self.default_weights[crop], in hundredths
default_weights(crop) ==
    IF crop = "corn"
    THEN [maturity |-> 15, yield |-> 20, stress |-> 20, disease |-> 25,
          agronomic |-> 20]
    ELSE [maturity |-> 15, yield |-> 20, stress |-> 20, disease |-> 30,
          agronomic |-> 15]

\* returns the tuple (composite * 100, ComponentScores)
calculate_composite_score(product, requirements, crop) ==
    LET maturity == IF crop = "corn" THEN product.relative_maturity
                    ELSE product.maturity_group
        maturity_score == score_maturity_fit(maturity,
                                             requirements.target_maturity_range)
        yield_score    == Rat(product.yield_potential, 9)
        stress_score   == score_stress_tolerance(product, requirements)
        disease_score  ==
            IF crop = "corn"
            THEN score_disease_tolerance_corn(product, requirements)
            ELSE score_disease_tolerance_soybean(product, requirements)
        agronomic_score ==
            IF crop = "corn"
            THEN score_agronomics_corn(product, requirements)
            ELSE score_agronomics_soybean(product, requirements)
        weights == default_weights(crop)
        W(w, x) == RMul(Rat(w, 100), x)
        composite ==
            RAdd(RAdd(RAdd(RAdd(W(weights.maturity, maturity_score),
                                W(weights.yield, yield_score)),
                           W(weights.stress, stress_score)),
                      W(weights.disease, disease_score)),
                 W(weights.agronomic, agronomic_score))
    IN  <<RMul(composite, RInt(100)),
          [maturity_fit      |-> RMul(maturity_score, RInt(100)),
           yield_potential   |-> RMul(yield_score, RInt(100)),
           stress_tolerance  |-> RMul(stress_score, RInt(100)),
           disease_tolerance |-> RMul(disease_score, RInt(100)),
           agronomics        |-> RMul(agronomic_score, RInt(100))]>>

----------------------------------------------------------------------------
(* FeatureExtractor.derive_target_maturity.  The conversion table is       *)
(* reference data read from gdd_rm_conversion.json; self.gdd_conversion is *)
(* {} when the file is missing.  A table is modelled per crop as a record  *)
(* [safety: None or GDD, rows: set of <<maturity key, required GDD>>].     *)

GddTable ==
    [corn    |-> [safety |-> 100,
                  rows   |-> {<<RInt(100), 2400>>, <<RInt(105), 2500>>,
                              <<RInt(110), 2650>>, <<RInt(115), 2800>>}],
     soybean |-> [safety |-> None,
                  rows   |-> {<<Rat(20, 10), 2300>>, <<Rat(28, 10), 2500>>,
                              <<Rat(35, 10), 2700>>}]]

NoTable ==
    [corn    |-> [safety |-> None, rows |-> {}],
     soybean |-> [safety |-> None, rows |-> {}]]

\* the first row, scanning keys in descending order, whose requirement fits
FirstFitting(rows, available_gdd, default) ==
    LET fits == {r \in rows : available_gdd >= r[2]}
    IN  IF fits = {} THEN default
        ELSE (CHOOSE r \in fits : \A q \in fits : RLeq(q[1], r[1]))[1]

derive_target_maturity(gdd_conversion, gdd_mean, crop) ==
    IF gdd_mean = None \/ gdd_mean = 0
    THEN IF crop = "corn"
         THEN <<RInt(105), RInt(110), RInt(115)>>
         ELSE <<Rat(25, 10), RInt(3), Rat(35, 10)>>
    ELSE IF crop = "corn"
    THEN
        LET t      == gdd_conversion.corn
            safety == IF t.safety = None THEN 100 ELSE t.safety
            optimal_rm == FirstFitting(t.rows, gdd_mean - safety, RInt(100))
        IN  <<RSub(optimal_rm, RInt(3)), optimal_rm, RAdd(optimal_rm, RInt(2))>>
    ELSE
        LET t      == gdd_conversion.soybean
            safety == IF t.safety = None THEN 150 ELSE t.safety
            optimal_mg == FirstFitting(t.rows, gdd_mean - safety, RInt(3))
        IN  <<RSub(optimal_mg, Rat(5, 10)), optimal_mg,
              RAdd(optimal_mg, Rat(3, 10))>>

----------------------------------------------------------------------------
(* FeatureExtractor.derive_drought_risk and derive_disease_risks.  An      *)
(* Optional[float] feature is a rational or NoValue (Python None).         *)

\* Python truth of an Optional[float]: None and 0.0 are false
Truthy(x) == x # NoValue /\ x # RInt(0)

derive_drought_risk(soil, weather, irrigation) ==
    LET after_aws ==
            IF Truthy(soil.aws_0_100) /\ RLt(soil.aws_0_100, RInt(15))
            THEN RAdd(Rat(3, 10), Rat(2, 10))
            ELSE IF Truthy(soil.aws_0_100) /\ RLt(RInt(25), soil.aws_0_100)
            THEN RSub(Rat(3, 10), Rat(1, 10))
            ELSE Rat(3, 10)
        after_sand ==
            IF Truthy(soil.sand_pct) /\ RLt(RInt(50), soil.sand_pct)
            THEN RAdd(after_aws, Rat(15, 100))
            ELSE after_aws
        after_precip ==
            IF Truthy(weather.growing_season_precip_mm)
               /\ RLt(weather.growing_season_precip_mm, RInt(450))
            THEN RAdd(after_sand, Rat(2, 10))
            ELSE after_sand
        after_cv ==
            IF Truthy(weather.precip_cv) /\ RLt(Rat(3, 10), weather.precip_cv)
            THEN RAdd(after_precip, Rat(1, 10))
            ELSE after_precip
        base_risk ==
            IF irrigation = "pivot" THEN RMul(after_cv, Rat(3, 10))
            ELSE IF irrigation = "drip" THEN RMul(after_cv, Rat(4, 10))
            ELSE after_cv
    IN  RMin(RInt(1), RMax(RInt(0), base_risk))

\* self.disease_baselines.get(crop, {}).get(disease, {})
\*     .get("by_state", {}).get(state, default);
\* a table maps crop -> disease -> state -> baseline, any level may lack a key
Baseline(disease_baselines, crop, disease, state, default) ==
    IF crop \notin DOMAIN disease_baselines THEN default
    ELSE IF disease \notin DOMAIN disease_baselines[crop] THEN default
    ELSE IF state \notin DOMAIN disease_baselines[crop][disease] THEN default
    ELSE disease_baselines[crop][disease][state]

\* variant: the risk is stored without the cap
Uncapped(base) == base

\* min(1.0, base)
Capped(base) == RMin(RInt(1), base)

\* base *= factor when the condition holds
Times(base, condition, factor) ==
    IF condition THEN RMul(base, factor) ELSE base

derive_disease_risks(disease_baselines, soil, management, state, crop) ==
    LET wet == soil.drainage_class \in {"Poorly drained", "Very poorly drained"}
    IN
    IF crop = "corn"
    THEN
        LET base_gls ==
                Times(Times(Times(
                    Baseline(disease_baselines, "corn", "gray_leaf_spot",
                             state, Rat(3, 10)),
                    management.previous_crop = "corn", Rat(15, 10)),
                    management.tillage = "no-till", Rat(13, 10)),
                    management.tillage = "conventional", Rat(7, 10))
        IN  [gls        |-> Capped(base_gls),
             nclb       |-> Capped(Baseline(disease_baselines, "corn",
                                "northern_leaf_blight", state, Rat(3, 10))),
             tar_spot   |-> Capped(Baseline(disease_baselines, "corn",
                                "tar_spot", state, Rat(2, 10))),
             gosss_wilt |-> Capped(Baseline(disease_baselines, "corn",
                                "gosss_wilt", state, Rat(2, 10)))]
    ELSE
        [sds |->
            Capped(Times(Baseline(disease_baselines, "soybean",
                                  "sudden_death_syndrome", state, Rat(3, 10)),
                         wet, Rat(14, 10))),
         scn |->
            Capped(Times(Baseline(disease_baselines, "soybean",
                                  "soybean_cyst_nematode", state, Rat(5, 10)),
                         management.soy_frequency_5yr # None
                            /\ management.soy_frequency_5yr >= 3,
                         Rat(13, 10))),
         phytophthora |->
            Capped(Times(Baseline(disease_baselines, "soybean",
                                  "phytophthora", state, Rat(3, 10)),
                         wet, Rat(15, 10))),
         white_mold |->
            Capped(Times(Baseline(disease_baselines, "soybean",
                                  "white_mold", state, Rat(3, 10)),
                         management.row_spacing <= 15, Rat(12, 10))),
         idc |->
            Capped(Times(Baseline(disease_baselines, "soybean",
                                  "iron_deficiency_chlorosis", state,
                                  Rat(2, 10)),
                         Truthy(soil.ph) /\ RLt(Rat(75, 10), soil.ph),
                         Rat(15, 10)))]

----------------------------------------------------------------------------

(* src/app.py: the dict-based scorers.                                     *)
(*                                                                         *)
(* A product, a field and a management are records with the keys of the    *)
(* JSON catalog, the field record and the sidebar.  Lists that the code    *)
(* only tests for membership (herbicide_traits, herbicide_program) are     *)
(* sets.  A soybean maturity group is carried in tenths (27 is MG 2.7).    *)

\* round(x, 1): the nearest tenth, a tie going to the even tenth
RoundTenth(x) ==
    LET n  == 10 * x[1]
        d  == x[2]
        fl == n \div d
        r2 == 2 * (n - fl * d)
    IN  IF r2 < d THEN Rat(fl, 10)
        ELSE IF r2 > d THEN Rat(fl + 1, 10)
        ELSE IF fl % 2 = 0 THEN Rat(fl, 10) ELSE Rat(fl + 1, 10)

\* int((low + high) / 2) for a population range
Midpoint(pop_range) == (pop_range[1] + pop_range[2]) \div 2

\* variant: the ratio score without the cap at 100
RatioScoreUncapped(trait, risk) ==
    RAdd(RMul(Rat(trait, IF risk > 1 THEN risk ELSE 1), RInt(50)), RInt(30))

\* min(100, (trait / max(risk, 1)) * 50 + 30)
RatioScore(trait, risk) ==
    RMin(RInt(100),
         RAdd(RMul(Rat(trait, IF risk > 1 THEN risk ELSE 1), RInt(50)), RInt(30)))

\* sum(values) / len(values)
Mean(values) ==
    LET RECURSIVE Sum(_)
        Sum(i) == IF i = 0 THEN RInt(0) ELSE RAdd(Sum(i - 1), values[i])
    IN  RDiv(Sum(Len(values)), RInt(Len(values)))

\* variant: the composite is returned as summed, without the clamp
ClampNothing(composite) == composite

\* composite = min(100, max(0, composite))
Clamp(composite) == RMin(RInt(100), RMax(RInt(0), composite))

\* variant: the warnings list outlives the call (a module-level list), so a
\* call starts from the warnings the previous call left
LeakedWarnings ==
    IF history # <<>> /\ "warnings" \in DOMAIN history[Len(history)].out
    THEN history[Len(history)].out.warnings
    ELSE <<>>

\* warnings = [] at the top of both scorers
FreshWarnings == <<>>

When(cond, text) == IF cond THEN <<text>> ELSE <<>>

PoorlyDrained == {"Poorly Drained", "Somewhat Poorly Drained"}

\* variant: the Liberty requirement is appended before the Roundup one
CornRequiredTraitsLibertyFirst(herbicide_program) ==
    When("Liberty" \in herbicide_program, "LL")
        \o When("Roundup" \in herbicide_program, "RR2")

\* required_traits of the corn herbicide check, in the order they are appended
CornRequiredTraits(herbicide_program) ==
    When("Roundup" \in herbicide_program, "RR2")
        \o When("Liberty" \in herbicide_program, "LL")

\* product["traits"][key] on a traits dict without that key: KeyError(key)
Raised(exception, key) == [raised |-> exception, key |-> key]

\* the ratings calculate_corn_score indexes, in the order it reads them
CornTraitKeys ==
    <<"drought_tolerance", "gray_leaf_spot", "northern_corn_leaf_blight",
      "tar_spot", "stalk_strength", "root_strength">>

\* the ratings calculate_soy_score indexes, in the order it reads them
SoyTraitKeys ==
    <<"drought_tolerance", "sds", "scn", "phytophthora", "white_mold", "idc",
      "standability">>

\* the keys a scorer indexes that the traits dict does not hold
AbsentKeys(traits, keys) == SelectSeq(keys, LAMBDA k : k \notin DOMAIN traits)

\* corn: low end on droughty soil, midpoint on poorly drained soil, else the
\* high end
CornPopulation(env, pop_range) ==
    IF RLt(env.awc, Rat(15, 100)) THEN pop_range[1]
    ELSE IF env.drainage_class \in PoorlyDrained THEN Midpoint(pop_range)
    ELSE pop_range[2]

\* variant: soybean given the corn policy on heavy ground
SoyPopulationMidpointOnHeavy(env, pop_range) ==
    IF RLt(env.awc, Rat(15, 100)) THEN pop_range[1]
    ELSE IF env.drainage_class \in PoorlyDrained THEN Midpoint(pop_range)
    ELSE pop_range[2]

\* soybean: low end on droughty soil, high end on poorly drained soil, else
\* the midpoint
SoyPopulation(env, pop_range) ==
    IF RLt(env.awc, Rat(15, 100)) THEN pop_range[1]
    ELSE IF env.drainage_class \in PoorlyDrained THEN pop_range[2]
    ELSE Midpoint(pop_range)

\* the first required trait the product lacks, as <<trait>>, else <<>>
FirstMissing(required_traits, herbicide_traits) ==
    SelectSeq(required_traits, LAMBDA t : t \notin herbicide_traits)

\* variant: a margin of exactly -100 is filtered too
CornTooLongInclusive(gdd_margin) == gdd_margin <= -100

\* the hard maturity filter (app.py line 495)
CornTooLong(gdd_margin) == gdd_margin < -100

calculate_corn_score(hybrid, field, management) ==
    LET env     == field.environment
        disease == field.disease_risk
        rm      == hybrid.relative_maturity
        gdd     == env.gdd_normal
        gdd_required == rm * 25 + 100
        gdd_margin   == gdd - gdd_required
        maturity ==
            IF gdd_margin < 0 THEN 60 ELSE IF gdd_margin < 100 THEN 85 ELSE 100
        expl1 ==
            IF gdd_margin < 0 THEN <<>>
            ELSE IF gdd_margin < 100 THEN <<"RM " \o ToString(rm) \o " fits well">>
            ELSE <<"RM " \o ToString(rm) \o " has good safety margin">>
        warn1 == FreshWarnings
                 \o When(gdd_margin < 0,
                         "RM " \o ToString(rm) \o " is borderline for this zone")
        awc           == env.awc
        drought_trait == hybrid.traits.drought_tolerance
        droughty      == RLt(awc, Rat(15, 100))
        drought_weight == IF droughty THEN 2 ELSE 1
        expl2 == expl1 \o When(droughty /\ drought_trait >= 7,
                               "Strong drought tolerance for sandy soil")
        warn2 == warn1 \o When(droughty /\ drought_trait < 7 /\ drought_trait <= 4,
                               "Low drought tolerance on droughty soil")
        drought == drought_trait * 10 * drought_weight
        gls_risk   == disease.gray_leaf_spot
        gls_trait  == hybrid.traits.gray_leaf_spot
        gls_score  == RatioScore(gls_trait, gls_risk)
        expl3 == expl2 \o When(gls_risk >= 7 /\ gls_trait >= 7,
                               "Good GLS tolerance for high-risk field")
        warn3 == warn2 \o When(gls_risk >= 7 /\ gls_trait < 7 /\ gls_trait <= 5,
                               "GLS risk - consider fungicide")
        nclb_score == RatioScore(hybrid.traits.northern_corn_leaf_blight,
                                 disease.northern_corn_leaf_blight)
        tar_risk   == disease.tar_spot
        tar_trait  == hybrid.traits.tar_spot
        tar_score  == RatioScore(tar_trait, tar_risk)
        warn4 == warn3 \o When(tar_risk >= 6 /\ tar_trait <= 4,
                               "Tar spot risk - scout closely")
        disease0 == Mean(<<gls_score, nclb_score, tar_score>>)
        stalk == hybrid.traits.stalk_strength
        root  == hybrid.traits.root_strength
        standability == (stalk + root) * 5
        expl4 == expl3 \o When(stalk >= 8 /\ root >= 8, "Excellent standability")
        corn_on_corn == management.previous_crop = "Corn"
        disease1 == IF corn_on_corn THEN RMul(disease0, Rat(9, 10)) ELSE disease0
        expl5 == expl4 \o When(corn_on_corn /\ gls_trait >= 7,
                               "Good for corn-on-corn (GLS tolerant)")
        disease2 == IF management.tillage = "No-Till"
                    THEN RMul(disease1, Rat(95, 100)) ELSE disease1
        missing == FirstMissing(CornRequiredTraits(management.herbicide_program),
                                hybrid.herbicide_traits)
        scores == [maturity     |-> RInt(maturity),
                   drought      |-> RInt(drought),
                   disease      |-> disease2,
                   standability |-> RInt(standability)]
        weighted ==
            RAdd(RAdd(RMul(scores.maturity, Rat(20, 100)),
                      RMul(scores.drought, Rat(20, 100))),
                 RAdd(RMul(scores.disease, Rat(35, 100)),
                      RMul(scores.standability, Rat(25, 100))))
        composite == Clamp(weighted)
        pop == CornPopulation(env, hybrid.population_range)
    IN  IF CornTooLong(gdd_margin)
        THEN [score |-> RInt(0), filtered |-> TRUE,
              reason |-> "RM " \o ToString(rm) \o " too long for "
                            \o ToString(gdd) \o " GDD zone"]
        ELSE IF AbsentKeys(hybrid.traits, CornTraitKeys) # <<>>
        THEN Raised("KeyError", AbsentKeys(hybrid.traits, CornTraitKeys)[1])
        ELSE IF missing # <<>>
        THEN [score |-> RInt(0), filtered |-> TRUE,
              reason |-> "Missing " \o missing[1] \o " trait for herbicide program"]
        ELSE [score        |-> RoundTenth(composite),
              filtered     |-> FALSE,
              scores       |-> scores,
              explanations |-> expl5,
              warnings     |-> warn4,
              population   |-> pop]

\* f"{mg}" for a maturity group held in tenths: 27 prints as 2.7
FormatTenths(t) == ToString(t \div 10) \o "." \o ToString(t % 10)

\* ', '.join(genes)
RECURSIVE JoinComma(_)
JoinComma(genes) ==
    IF Len(genes) = 0 THEN ""
    ELSE IF Len(genes) = 1 THEN genes[1]
    ELSE genes[1] \o ", " \o JoinComma(Tail(genes))

RAbs(a) == <<Abs(a[1]), a[2]>>

calculate_soy_score(variety, field, management) ==
    LET env     == field.environment
        disease == field.disease_risk
        mg      == Rat(variety.maturity_group, 10)
        gdd     == env.gdd_normal
        ideal_mg == RAdd(RInt(3), Rat(gdd - 2800, 333))
        mg_diff  == RAbs(RSub(mg, ideal_mg))
        mg_text  == FormatTenths(variety.maturity_group)
        band2 == RLt(Rat(5, 10), mg_diff)
        band3 == ~band2 /\ RLt(Rat(3, 10), mg_diff)
        maturity == IF band2 THEN 65 ELSE IF band3 THEN 80 ELSE 95
        warn1 == FreshWarnings \o When(band2, "MG " \o mg_text \o " is borderline")
        expl1 == When(~band2 /\ ~band3, "MG " \o mg_text \o " fits zone well")
        awc           == env.awc
        drought_trait == variety.traits.drought_tolerance
        droughty      == RLt(awc, Rat(15, 100))
        drought_weight == IF droughty THEN 2 ELSE 1
        expl2 == expl1 \o When(droughty /\ drought_trait >= 7,
                               "Good drought tolerance for light soil")
        warn2 == warn1 \o When(droughty /\ drought_trait < 7 /\ drought_trait <= 4,
                               "Low drought tolerance risk")
        drought == drought_trait * 10 * drought_weight
        sds_risk  == disease.sds
        sds_trait == variety.traits.sds
        sds_score == RatioScore(sds_trait, sds_risk)
        expl3 == expl2 \o When(sds_risk >= 7 /\ sds_trait >= 7, "Strong SDS tolerance")
        warn3 == warn2 \o When(sds_risk >= 7 /\ sds_trait < 7 /\ sds_trait <= 5,
                               "SDS risk - avoid early planting")
        scn_risk  == disease.scn
        scn_trait == variety.traits.scn
        \* the value appended to disease_scores; the later scn_score += 10
        \* rebinds the local name only
        scn_score == RatioScore(scn_trait, scn_risk)
        peking    == variety.scn_source = "Peking"
        expl4 == expl3
                 \o When(scn_risk >= 7 /\ peking,
                         "Peking SCN source - good for resistant populations")
                 \o When(scn_risk >= 7 /\ ~peking /\ scn_trait >= 8,
                         "Strong SCN package")
        phyto_risk  == disease.phytophthora
        phyto_trait == variety.traits.phytophthora
        phyto_score == RatioScore(phyto_trait, phyto_risk)
        genes       == variety.phytophthora_genes
        expl5 == expl4 \o When(phyto_risk >= 7 /\ Len(genes) >= 3,
                               "Strong Phyto package: " \o JoinComma(genes))
        warn4 == warn3 \o When(phyto_risk >= 7 /\ Len(genes) < 3 /\ phyto_trait <= 5,
                               "Phytophthora risk on poorly drained soil")
        wm_score == RatioScore(variety.traits.white_mold, disease.white_mold)
        disease0 == Mean(<<sds_score, scn_score, phyto_score, wm_score>>)
        high_ph   == RLeq(Rat(75, 10), env.ph)
        idc_trait == variety.traits.idc
        idc == IF high_ph THEN (IF idc_trait >= 7 THEN 90 ELSE 50) ELSE 80
        expl6 == expl5 \o When(high_ph /\ idc_trait >= 7,
                               "Good IDC tolerance for high pH")
        warn5 == warn4 \o When(high_ph /\ idc_trait < 7, "IDC risk on high pH soil")
        standability == variety.traits.standability * 10
        soy_on_soy == management.previous_crop = "Soybeans"
        disease1 == IF soy_on_soy THEN RMul(disease0, Rat(85, 100)) ELSE disease0
        warn6 == warn5 \o When(soy_on_soy, "Soy-on-soy increases disease pressure")
        herb_prog      == management.herbicide_program
        variety_traits == variety.herbicide_traits
        scores == [maturity     |-> RInt(maturity),
                   drought      |-> RInt(drought),
                   disease      |-> disease1,
                   idc          |-> RInt(idc),
                   standability |-> RInt(standability)]
        weighted ==
            RAdd(RAdd(RAdd(RMul(scores.maturity, Rat(20, 100)),
                           RMul(scores.drought, Rat(15, 100))),
                      RAdd(RMul(scores.disease, Rat(40, 100)),
                           RMul(scores.idc, Rat(10, 100)))),
                 RMul(scores.standability, Rat(15, 100)))
        composite == Clamp(weighted)
        pop == SoyPopulation(env, variety.population_range)
    IN  IF RLt(Rat(8, 10), mg_diff)
        THEN [score |-> RInt(0), filtered |-> TRUE,
              reason |-> "MG " \o mg_text \o " too "
                            \o (IF RLt(ideal_mg, mg) THEN "long" ELSE "short")
                            \o " for this zone"]
        ELSE IF AbsentKeys(variety.traits, SoyTraitKeys) # <<>>
        THEN Raised("KeyError", AbsentKeys(variety.traits, SoyTraitKeys)[1])
        ELSE IF "Dicamba" \in herb_prog /\ "XtendFlex" \notin variety_traits
        THEN [score |-> RInt(0), filtered |-> TRUE,
              reason |-> "Missing XtendFlex for dicamba program"]
        ELSE IF "Enlist" \in herb_prog /\ "Enlist E3" \notin variety_traits
        THEN [score |-> RInt(0), filtered |-> TRUE,
              reason |-> "Missing Enlist E3 for 2,4-D program"]
        ELSE [score        |-> RoundTenth(composite),
              filtered     |-> FALSE,
              scores       |-> scores,
              explanations |-> expl6,
              warnings     |-> warn6,
              population   |-> pop]

\* variant: an ascending sort read backwards, which turns entries of equal
\* score around
EarlierOnTieReversed(j, i) == i < j

\* list.sort is stable, also with reverse=True: of two entries of equal key the
\* one at the lower index j stays ahead of the one at index i
EarlierOnTie(j, i) == j < i

\* variant: the sort without reverse=True, lowest score first
SortByScoreAscending(results) ==
    LET n == Len(results)
        Score(i) == results[i].result.score
        Position(i) ==
            1 + Cardinality({j \in 1..n : \/ RLt(Score(j), Score(i))
                                          \/ j < i /\ Score(j) = Score(i)})
    IN  [k \in 1..n |-> results[CHOOSE i \in 1..n : Position(i) = k]]

\* results.sort(key=lambda x: x["result"]["score"], reverse=True): list.sort
\* is stable, and with reverse=True entries of equal score keep their order.
\* An entry goes behind every entry of higher score and behind the entries
\* of equal score that precede it in the list.
SortByScoreDescending(results) ==
    LET n == Len(results)
        Score(i) == results[i].result.score
        Position(i) ==
            1 + Cardinality({j \in 1..n : \/ RLt(Score(i), Score(j))
                                          \/ /\ EarlierOnTie(j, i)
                                             /\ Score(j) = Score(i)})
    IN  [k \in 1..n |-> results[CHOOSE i \in 1..n : Position(i) = k]]

\* variant: a record without a boundary is not scored
score_func_needs_boundary(crop, product, selected_field, management) ==
    IF "geometry" \in DOMAIN selected_field /\ selected_field.geometry = NoneStr
    THEN [score |-> RInt(0), filtered |-> TRUE, reason |-> "No field boundary"]
    ELSE IF crop = "Corn"
    THEN calculate_corn_score(product, selected_field, management)
    ELSE calculate_soy_score(product, selected_field, management)

score_func(crop, product, selected_field, management) ==
    IF crop = "Corn"
    THEN calculate_corn_score(product, selected_field, management)
    ELSE calculate_soy_score(product, selected_field, management)

Products(crop) == IF crop = "Corn" THEN corn_hybrids ELSE soy_varieties

\* the for loop of score_products_for_field, which has no break: every product
\* is handed to score_func in turn (scored), and the products whose result is
\* not filtered are appended to results
ScoreLoop(crop, products, selected_field, management) ==
    LET scored ==
            [i \in 1..Len(products) |->
                [product |-> products[i],
                 result  |-> score_func(crop, products[i], selected_field,
                                        management)]]
    IN  [results |-> SelectSeq(scored, LAMBDA e : ~e.result.filtered),
         scored  |-> [i \in 1..Len(products) |-> products[i].name]]

\* main: the number of products left out of the ranking
filtered_count(crop, results) == Len(Products(crop)) - Len(results)

\* The list the loop built is bound as a value (an element of a singleton set)
\* before it is sorted, so the sort does not re-run the loop at every access.
score_products_for_field(crop, selected_field, management) ==
    LET Ranked(loop) == [results |-> SortByScoreDescending(loop.results),
                         scored  |-> loop.scored]
    IN  CHOOSE r \in {Ranked(loop) :
                        loop \in {ScoreLoop(crop, Products(crop),
                                            selected_field, management)}} : TRUE

----------------------------------------------------------------------------
(* Inputs of the pure-function specifications.                             *)

RiskSteps == 20
MaxHalf == 4

Ratings == 1..9
OptRatings == Ratings \cup {None}

\* risk levels in [0,1]: a uniform grid plus the two regime boundaries
RiskGrid == {Rat(k, RiskSteps) : k \in 0..RiskSteps} \cup {Rat(3, 10), Rat(7, 10)}

GddMeans == {None, 2450, 2700, 2800, 3000}

DerivedWindows ==
    {derive_target_maturity(t, g, c) :
        t \in {GddTable, NoTable}, g \in GddMeans, c \in {"corn", "soybean"}}

\* every window min <= opt <= max over a grid of halves, degenerate ones included
GridWindows ==
    {<<Rat(a, 2), Rat(b, 2), Rat(c, 2)>> :
        a \in 0..MaxHalf, b \in 0..MaxHalf, c \in 0..MaxHalf}

OrderedWindows ==
    {w \in GridWindows : RLeq(w[1], w[2]) /\ RLeq(w[2], w[3])}
        \cup DerivedWindows

\* the maturities tried against a window: below, on and between its three
\* points, and above
ProbeValues(w) ==
    {RSub(w[1], Rat(1, 10)), w[1], RDiv(RAdd(w[1], w[2]), RInt(2)), w[2],
     RDiv(RAdd(w[2], w[3]), RInt(2)), w[3], RAdd(w[3], Rat(1, 10))}

MaturityArgs ==
    UNION {{[product_maturity |-> v, target_range |-> w] : v \in ProbeValues(w)} :
              w \in OrderedWindows}

MatchArgs == [tolerance_rating : OptRatings, risk_level : RiskGrid]

----------------------------------------------------------------------------
(* Inputs of the dict-based scorers: products, fields and managements      *)
(* shaped like the catalog JSON, the field records and the sidebar.        *)

\* <<stress level, disease level>> of a product's 1-9 trait ratings
TraitProfiles == {<<1, 1>>, <<5, 5>>, <<9, 9>>, <<9, 1>>, <<1, 9>>}

Hybrid(name, rm, tp, ht) ==
    [name              |-> name,
     relative_maturity |-> rm,
     traits |-> [drought_tolerance         |-> tp[1],
                 gray_leaf_spot            |-> tp[2],
                 northern_corn_leaf_blight |-> tp[2],
                 tar_spot                  |-> tp[2],
                 stalk_strength            |-> tp[1],
                 root_strength             |-> tp[1]],
     herbicide_traits  |-> ht,
     population_range  |-> <<30000, 35001>>]

Variety(name, mg, tp, ht) ==
    [name             |-> name,
     maturity_group   |-> mg,
     traits |-> [drought_tolerance |-> tp[1],
                 sds               |-> tp[2],
                 scn               |-> tp[2],
                 phytophthora      |-> tp[2],
                 white_mold        |-> tp[2],
                 idc               |-> tp[1],
                 standability      |-> tp[1]],
     scn_source         |-> IF tp[2] = 9 THEN "Peking" ELSE "PI 88788",
     phytophthora_genes |-> IF tp[1] = 9 THEN <<"Rps1c", "Rps1k", "Rps3a">>
                            ELSE <<"Rps1k">>,
     herbicide_traits   |-> ht,
     population_range   |-> <<120000, 150001>>]

Hybrids ==
    {Hybrid("hybrid", rm, tp, ht) :
        rm \in {105, 111}, tp \in TraitProfiles, ht \in SUBSET {"RR2", "LL"}}

Varieties ==
    {Variety("variety", mg, tp, ht) :
        mg \in {21, 27, 35}, tp \in TraitProfiles,
        ht \in {{}, {"XtendFlex"}, {"Enlist E3"}, {"XtendFlex", "Enlist E3", "RR2"}}}

Environments ==
    {[gdd_normal |-> g, awc |-> e[1], drainage_class |-> e[2], ph |-> e[3]] :
        g \in {2750, 2775, 2800, 2850, 2975},
        e \in {<<Rat(12, 100), "Well Drained", Rat(65, 10)>>,
               <<Rat(18, 100), "Poorly Drained", Rat(78, 10)>>,
               <<Rat(20, 100), "Well Drained", Rat(75, 10)>>}}
    \cup
    \* droughty and poorly drained at once, and AWC exactly 0.15
    {[gdd_normal |-> 2800, awc |-> e[1], drainage_class |-> e[2], ph |-> e[3]] :
        e \in {<<Rat(12, 100), "Poorly Drained", Rat(65, 10)>>,
               <<Rat(15, 100), "Somewhat Poorly Drained", Rat(65, 10)>>}}
    \cup
    \* the zone where RM 111 needs exactly the GDD there is
    {[gdd_normal |-> 2875, awc |-> Rat(20, 100),
      drainage_class |-> "Well Drained", ph |-> Rat(65, 10)]}

DiseaseRisks ==
    {[gray_leaf_spot |-> r, northern_corn_leaf_blight |-> r, tar_spot |-> r,
      goss_wilt |-> r, sds |-> r, scn |-> r, phytophthora |-> r,
      white_mold |-> r] : r \in {0, 5, 9}}

Fields == [environment : Environments, disease_risk : DiseaseRisks]

HerbicidePrograms ==
    {{}, {"Roundup"}, {"Liberty"}, {"Roundup", "Liberty"}, {"Dicamba"},
     {"Enlist"}, {"Dicamba", "Roundup"}, {"Dicamba", "Enlist"}}

Managements ==
    [previous_crop     : {"Corn", "Soybeans"},
     tillage           : {"Conventional", "No-Till"},
     herbicide_program : HerbicidePrograms,
     fungicide         : {FALSE}]

----------------------------------------------------------------------------
(* Inputs of the structured engine: CornHybrid / SoybeanVariety models and *)
(* FieldRequirements, with the optional ratings absent in some products.   *)

\* risk levels: under every threshold, low, moderate and high regime
EngineRisks == {RInt(0), Rat(1, 4), Rat(1, 2), RInt(1)}

OptLevels == {None, 1, 9}

CornWindow == derive_target_maturity(GddTable, 2800, "corn")

SoyWindow == derive_target_maturity(GddTable, 2800, "soybean")

\* maturities tried: under the window, the optimum, and the upper edge
EngineMaturities(w) == {RSub(w[1], RInt(1)), w[2], w[3]}

CornHybridModels ==
    {[relative_maturity    |-> m,
      yield_potential      |-> y,
      drought_tolerance    |-> a,
      emergence_vigor      |-> a,
      gray_leaf_spot       |-> b,
      northern_leaf_blight |-> b,
      tar_spot             |-> b,
      gosss_wilt           |-> b,
      stalk_strength       |-> c,
      root_strength        |-> c,
      drydown              |-> c,
      test_weight          |-> c] :
        m \in EngineMaturities(CornWindow), y \in {1, 9}, a \in OptLevels,
        b \in OptLevels \cup {5}, c \in OptLevels}

SoybeanVarietyModels ==
    {[maturity_group     |-> m,
      yield_potential    |-> y,
      drought_tolerance  |-> a,
      emergence_vigor    |-> a,
      idc_tolerance      |-> a,
      sds_rating         |-> b,
      phytophthora_field |-> b,
      white_mold         |-> b,
      frogeye_leaf_spot  |-> b,
      scn_source         |-> src,
      lodging_resistance |-> c] :
        m \in EngineMaturities(SoyWindow), y \in {1, 9}, a \in OptLevels,
        b \in OptLevels, c \in {None, 9},
        src \in {NoneStr, "Peking", "PI 437654", "Unlisted"}}

ScnHistories ==
    {<<>>, <<"Peking", "Peking", "PI 88788">>, <<"Peking", "PI 88788", "PI 88788">>}

\* the second risk of each group is the complement of the first, so one
\* requirement profile mixes regimes
Requirements(window, histories) ==
    {[target_maturity_range |-> window,
      drought_risk          |-> ra,
      emergence_challenge   |-> RSub(RInt(1), ra),
      gls_risk              |-> rb,
      nclb_risk             |-> rb,
      tar_spot_risk         |-> RSub(RInt(1), rb),
      gosss_wilt_risk       |-> RSub(RInt(1), rb),
      sds_risk              |-> rb,
      phytophthora_risk     |-> rb,
      white_mold_risk       |-> RSub(RInt(1), rb),
      frogeye_risk          |-> RSub(RInt(1), rb),
      scn_risk              |-> rb,
      idc_risk              |-> RSub(RInt(1), ra),
      standability_need     |-> rc,
      late_harvest_risk     |-> RSub(RInt(1), rc),
      lodging_risk          |-> rc,
      scn_source_history    |-> h] :
        ra \in EngineRisks, rb \in EngineRisks, rc \in {RInt(0), RInt(1)},
        h \in histories}

CompositeArgs ==
    [product : CornHybridModels,
     requirements : Requirements(CornWindow, {<<>>}),
     crop : {"corn"}]
    \cup
    [product : SoybeanVarietyModels,
     requirements : Requirements(SoyWindow, ScnHistories),
     crop : {"soybean"}]

CornArgs == [hybrid : Hybrids, field : Fields, management : Managements]

SoyArgs == [variety : Varieties, field : Fields, management : Managements]

----------------------------------------------------------------------------
(* The scoring functions, each applied to one input.                       *)

InitScoring ==
    /\ \/ fn = "calculate_corn_score" /\ args \in CornArgs
       \/ fn = "calculate_soy_score" /\ args \in SoyArgs
       \/ fn = "calculate_composite_score" /\ args \in CompositeArgs
    /\ pc = "call"
    /\ out = NoValue
    /\ calls = <<>>
    /\ corn_hybrids = <<>>
    /\ soy_varieties = <<>>
    /\ history = <<>>
    /\ NoSession

CallCornScore ==
    /\ fn = "calculate_corn_score"
    /\ pc = "call"
    /\ pc' = "done"
    /\ out' = calculate_corn_score(args.hybrid, args.field, args.management)
    /\ UNCHANGED <<fn, args, calls, globals, history>>

CallSoyScore ==
    /\ fn = "calculate_soy_score"
    /\ pc = "call"
    /\ pc' = "done"
    /\ out' = calculate_soy_score(args.variety, args.field, args.management)
    /\ UNCHANGED <<fn, args, calls, globals, history>>

CallCompositeScore ==
    /\ fn = "calculate_composite_score"
    /\ pc = "call"
    /\ pc' = "done"
    /\ out' = calculate_composite_score(args.product, args.requirements, args.crop)
    /\ UNCHANGED <<fn, args, calls, globals, history>>

NextScoring == CallCornScore \/ CallSoyScore \/ CallCompositeScore

SpecScoring == InitScoring /\ [][NextScoring]_vars

----------------------------------------------------------------------------
(* score_products_for_field over a loaded catalog.                         *)

MaxCatalog == 3

\* the products on file; P2/P3 and A2/A3 have the same ratings, so they tie
HybridsOnFile ==
    <<Hybrid("P1", 111, <<9, 9>>, {"RR2", "LL"}),
      Hybrid("P2", 105, <<5, 5>>, {"RR2"}),
      Hybrid("P3", 105, <<5, 5>>, {"RR2", "LL"}),
      Hybrid("P4", 105, <<9, 1>>, {})>>

VarietiesOnFile ==
    <<Variety("A1", 35, <<9, 9>>, {"XtendFlex", "Enlist E3", "RR2"}),
      Variety("A2", 27, <<5, 5>>, {"XtendFlex"}),
      Variety("A3", 27, <<5, 5>>, {"XtendFlex", "Enlist E3"}),
      Variety("A4", 21, <<9, 1>>, {})>>

\* the selections of at most MaxCatalog distinct file entries, in every order
CatalogOrders ==
    {o \in UNION {[1..n -> 1..Len(HybridsOnFile)] : n \in 0..MaxCatalog} :
        \A i, j \in 1..Len(o) : o[i] = o[j] => i = j}

Pick(file, order) == [i \in 1..Len(order) |-> file[order[i]]]

RankFields ==
    {f \in Fields : f.disease_risk.sds = 5}

RankManagements ==
    {m \in Managements : m.tillage = "Conventional" /\ m.previous_crop = "Corn"}

RankArgs ==
    [crop : {"Corn", "Soybeans"}, selected_field : RankFields,
     management : RankManagements]

InitRank ==
    /\ fn = "score_products_for_field"
    /\ args \in RankArgs
    /\ pc = "call"
    /\ out = NoValue
    /\ calls = <<>>
    /\ \E o \in CatalogOrders :
          /\ corn_hybrids = Pick(HybridsOnFile, o)
          /\ soy_varieties = Pick(VarietiesOnFile, o)
    /\ history = <<>>
    /\ NoSession

CallScoreProductsForField ==
    /\ fn = "score_products_for_field"
    /\ pc = "call"
    /\ pc' = "done"
    /\ LET r == score_products_for_field(args.crop, args.selected_field,
                                         args.management)
       IN  /\ out' = r.results
           /\ calls' = r.scored
    /\ UNCHANGED <<fn, args, globals, history>>

SpecRank == InitRank /\ [][CallScoreProductsForField]_vars

----------------------------------------------------------------------------
(* A session of scoring calls, each recorded in history.                   *)

MaxCalls == 3

SessionCornArgs ==
    {a \in CornArgs :
        /\ a.hybrid.relative_maturity = 111
        /\ a.hybrid.traits.drought_tolerance = 1
        /\ a.hybrid.traits.tar_spot = 1
        /\ a.hybrid.herbicide_traits = {"RR2"}
        /\ a.field.environment.gdd_normal \in {2750, 2850}
        /\ a.field.environment.awc = Rat(12, 100)
        /\ a.field.disease_risk.tar_spot = 9
        /\ a.management.tillage = "No-Till"
        /\ a.management.previous_crop = "Corn"
        /\ a.management.herbicide_program \in {{"Roundup"}, {"Liberty"}}}

SessionSoyArgs ==
    {a \in SoyArgs :
        /\ a.variety.maturity_group = 27
        /\ a.variety.traits.drought_tolerance = 1
        /\ a.variety.herbicide_traits = {"XtendFlex"}
        /\ a.field.environment.gdd_normal = 2800
        /\ a.field.environment.drainage_class = "Poorly Drained"
        /\ a.field.disease_risk.sds = 9
        /\ a.management.tillage = "No-Till"
        /\ a.management.previous_crop = "Soybeans"
        /\ a.management.herbicide_program \in {{"Dicamba"}, {"Enlist"}}}

SessionCompositeArgs ==
    {a \in CompositeArgs :
        /\ a.product.yield_potential = 9
        /\ a.product.drought_tolerance = 9
        /\ a.product[IF a.crop = "corn" THEN "gray_leaf_spot" ELSE "sds_rating"] = 1
        /\ a.product[IF a.crop = "corn" THEN "test_weight"
                     ELSE "lodging_resistance"] = 9
        /\ a.product[IF a.crop = "corn" THEN "relative_maturity"
                     ELSE "maturity_group"]
              = a.requirements.target_maturity_range[2]
        /\ a.crop = "soybean" => a.product.scn_source = "Peking"
        /\ a.requirements.drought_risk = Rat(1, 2)
        /\ a.requirements.gls_risk \in {Rat(1, 4), RInt(1)}
        /\ a.requirements.standability_need = RInt(1)
        /\ a.requirements.scn_source_history # <<>>}

InitSession ==
    /\ fn = "none"
    /\ args = NoValue
    /\ pc = "done"
    /\ out = NoValue
    /\ calls = <<>>
    /\ corn_hybrids = <<>>
    /\ soy_varieties = <<>>
    /\ history = <<>>
    /\ NoSession

\* one complete call of function f on arguments a returning r
Completed(f, a, r) ==
    /\ Len(history) < MaxCalls
    /\ fn' = f
    /\ args' = a
    /\ out' = r
    /\ history' = Append(history, [fn |-> f, args |-> a, out |-> r])
    /\ UNCHANGED <<pc, calls, globals>>

SessionCornScore ==
    \E a \in SessionCornArgs :
        Completed("calculate_corn_score", a,
                  calculate_corn_score(a.hybrid, a.field, a.management))

SessionSoyScore ==
    \E a \in SessionSoyArgs :
        Completed("calculate_soy_score", a,
                  calculate_soy_score(a.variety, a.field, a.management))

SessionCompositeScore ==
    \E a \in SessionCompositeArgs :
        Completed("calculate_composite_score", a,
                  calculate_composite_score(a.product, a.requirements, a.crop))

NextSession == SessionCornScore \/ SessionSoyScore \/ SessionCompositeScore

SpecSession == InitSession /\ [][NextSession]_vars

----------------------------------------------------------------------------
(* The scorers applied to products whose optional ratings are absent: a    *)
(* catalog entry whose traits dict lacks keys, a CornHybrid or             *)
(* SoybeanVariety whose Optional[int] fields are None.                     *)

Elements(seq) == {seq[i] : i \in 1..Len(seq)}

\* a traits dict holding only the keys in present
Keep(traits, present) == [k \in present |-> traits[k]]

PartialHybrids ==
    {[Hybrid("hybrid", rm, <<5, 5>>, {"RR2", "LL"})
         EXCEPT !.traits = Keep(@, present)] :
        rm \in {105, 111}, present \in SUBSET Elements(CornTraitKeys)}

PartialVarieties ==
    {[Variety("variety", mg, <<5, 5>>, {"XtendFlex", "Enlist E3", "RR2"})
         EXCEPT !.traits = Keep(@, present)] :
        mg \in {21, 27}, present \in SUBSET Elements(SoyTraitKeys)}

OptionalFields ==
    {f \in Fields : /\ f.environment.gdd_normal \in {2750, 2975}
                    /\ f.disease_risk.sds = 5}

OptionalManagements ==
    {m \in Managements : /\ m.tillage = "Conventional"
                         /\ m.previous_crop = "Corn"
                         /\ m.herbicide_program = {"Roundup"}}

\* every rating of the model independently absent or rated 5
PartialCornHybridModels ==
    [relative_maturity    : {CornWindow[2]},
     yield_potential      : {5},
     drought_tolerance    : {None, 5},
     emergence_vigor      : {None, 5},
     gray_leaf_spot       : {None, 5},
     northern_leaf_blight : {None, 5},
     tar_spot             : {None, 5},
     gosss_wilt           : {None, 5},
     stalk_strength       : {None, 5},
     root_strength        : {None, 5},
     drydown              : {None, 5},
     test_weight          : {None, 5}]

PartialSoybeanVarietyModels ==
    [maturity_group     : {SoyWindow[2]},
     yield_potential    : {5},
     drought_tolerance  : {None, 5},
     emergence_vigor    : {None, 5},
     idc_tolerance      : {None, 5},
     sds_rating         : {None, 5},
     phytophthora_field : {None, 5},
     white_mold         : {None, 5},
     frogeye_leaf_spot  : {None, 5},
     scn_source         : {NoneStr, "Peking"},
     lodging_resistance : {None, 5}]

\* requirement profiles with the stress and disease groups in the same regime
OptionalRequirements(window) ==
    {r \in Requirements(window, {<<>>}) : r.drought_risk = r.gls_risk}

InitOptional ==
    /\ \/ /\ fn = "calculate_corn_score"
          /\ args \in [hybrid : PartialHybrids, field : OptionalFields,
                       management : OptionalManagements]
       \/ /\ fn = "calculate_soy_score"
          /\ args \in [variety : PartialVarieties, field : OptionalFields,
                       management : OptionalManagements]
       \/ /\ fn = "calculate_composite_score"
          /\ args \in [product : PartialCornHybridModels,
                       requirements : OptionalRequirements(CornWindow),
                       crop : {"corn"}]
                      \cup
                      [product : PartialSoybeanVarietyModels,
                       requirements : OptionalRequirements(SoyWindow),
                       crop : {"soybean"}]
    /\ pc = "call"
    /\ out = NoValue
    /\ calls = <<>>
    /\ corn_hybrids = <<>>
    /\ soy_varieties = <<>>
    /\ history = <<>>
    /\ NoSession

SpecOptional == InitOptional /\ [][NextScoring]_vars

----------------------------------------------------------------------------
(* main: the fields of the page and the management each is scored with.    *)
(* A field id or name is the sequence of its characters, so that _keyify   *)
(* can be computed on it; a key of st.session_state such as                *)
(* f"mgmt_saved_{fk}" is the pair <<"mgmt_saved", fk>>.                    *)

\* str.isalnum() on the characters that occur in the ids and names used here
IsAlnum(ch) == ch \in {"F", "N", "S", "1", "2", "4", "0"}

\* s.strip("_")
RECURSIVE StripUnderscores(_)
StripUnderscores(s) ==
    IF s = <<>> THEN s
    ELSE IF Head(s) = "_" THEN StripUnderscores(Tail(s))
    ELSE IF s[Len(s)] = "_" THEN StripUnderscores(SubSeq(s, 1, Len(s) - 1))
    ELSE s

\* val is None or "" when it is the empty sequence, and str(val or "") is ""
_keyify(val) ==
    LET mapped == [i \in 1..Len(val) |->
                      IF IsAlnum(val[i]) \/ val[i] \in {"_", "-"}
                      THEN val[i] ELSE "_"]
        res == StripUnderscores(mapped)
    IN  IF res = <<>> THEN <<"k", "e", "y">> ELSE res

\* field.get("id") or field.get("name")
_get_field_key(field) ==
    _keyify(IF field.id # <<>> THEN field.id ELSE field.name)

\* the value under key, if the key is in the dict
Get(dict, key, default) == IF key \in DOMAIN dict THEN dict[key] ELSE default

\* "override and isinstance(saved, dict)".  Only the Lock button stores under
\* mgmt_saved_{fk}, and it stores a dict, so isinstance(saved, dict) is the
\* presence of the key.
UsesSaved(field) ==
    LET fk == _get_field_key(field)
    IN  /\ Get(session_state, <<"mgmt_override", fk>>, FALSE)
        /\ <<"mgmt_saved", fk>> \in DOMAIN session_state

_get_management_for_field(field, management) ==
    IF UsesSaved(field)
    THEN session_state[<<"mgmt_saved", _get_field_key(field)>>]
    ELSE management

\* variant: the scorer consumes the herbicide list it was handed
ManagementAfterScoringConsumed(management) ==
    [management EXCEPT !.herbicide_program = {}]

\* The management dict after score_products_for_field returns: the scorers
\* only read it (management.get(...), management["herbicide_program"], in).
ManagementAfterScoring(management) == management

\* The dict handed to the scorer is the saved dict itself or the sidebar dict
\* itself, not a copy: what the scorer does to it is done to that object.
SessionAfterScoring(field) ==
    IF UsesSaved(field)
    THEN [session_state EXCEPT
             ![<<"mgmt_saved", _get_field_key(field)>>] =
                 ManagementAfterScoring(@)]
    ELSE session_state

DefaultAfterScoring(field, management) ==
    IF UsesSaved(field) THEN management ELSE ManagementAfterScoring(management)

\* what a field record carries besides environment and disease_risk
Boundaries ==
    {[id |-> <<"F", "1">>, name |-> <<"N", " ", "4", "0">>, county |-> "Story",
      state |-> "IA", acres |-> 80, geometry |-> "polygon-1"],
     [id |-> <<>>, name |-> <<"N", ".", "4", "0">>, county |-> "Polk",
      state |-> "IA", acres |-> 120, geometry |-> NoneStr],
     [id |-> <<"_", "F", "2", "_">>, name |-> <<"S", "-", "1">>,
      county |-> "Polk", state |-> "MN", acres |-> 40,
      geometry |-> "polygon-2"]}

WithBoundary(field, boundary) ==
    [environment  |-> field.environment,
     disease_risk |-> field.disease_risk,
     id           |-> boundary.id,
     name         |-> boundary.name,
     county       |-> boundary.county,
     state        |-> boundary.state,
     acres        |-> boundary.acres,
     geometry     |-> boundary.geometry]

\* the field records of the page: one soil under every boundary
PageFields ==
    {WithBoundary(f, b) :
        f \in {g \in Fields : /\ g.environment.gdd_normal = 2800
                              /\ g.environment.awc = Rat(20, 100)
                              /\ g.disease_risk.sds = 5},
        b \in Boundaries}

\* one or two distinct field records, in either order
FieldSelections ==
    {<<f>> : f \in PageFields}
        \cup {s \in PageFields \X PageFields : s[1] # s[2]}

SidebarManagements ==
    {m \in Managements : /\ m.tillage = "No-Till"
                         /\ m.previous_crop = "Soybeans"
                         /\ m.herbicide_program
                               \in {{"Roundup", "Liberty"}, {"Dicamba", "Roundup"}}}

\* what Lock stored for a field at some earlier run
SavedManagements ==
    {m \in Managements : /\ m.tillage = "Conventional"
                         /\ m.previous_crop = "Corn"
                         /\ m.herbicide_program \in {{"Roundup"}, {"Dicamba"}}}

\* The per-field entries of st.session_state for one field key: the override
\* checkbox (absent before its first render) and the snapshot Lock stored,
\* which Lock stores together with override = True.
FieldEntries(fk) ==
    {<<>>} \cup
    {[k \in {<<"mgmt_override", fk>>} |-> o] : o \in BOOLEAN} \cup
    {[k \in {<<"mgmt_override", fk>>, <<"mgmt_saved", fk>>} |->
         IF k[1] = "mgmt_override" THEN o ELSE m] :
        o \in BOOLEAN, m \in SavedManagements}

\* the union of two dicts with disjoint keys
Merge(d, e) ==
    [k \in DOMAIN d \cup DOMAIN e |-> IF k \in DOMAIN d THEN d[k] ELSE e[k]]

FieldKeys(fields) == {_get_field_key(fields[i]) : i \in 1..Len(fields)}

RECURSIVE SessionStates(_)
SessionStates(keys) ==
    IF keys = {} THEN {<<>>}
    ELSE LET fk == CHOOSE k \in keys : TRUE
         IN  {Merge(d, e) : d \in FieldEntries(fk),
                            e \in SessionStates(keys \ {fk})}

InitPage ==
    /\ fn = "main"
    /\ args = NoValue
    /\ pc = "done"
    /\ out = NoValue
    /\ calls = <<>>
    /\ history = <<>>
    /\ corn_hybrids = Pick(HybridsOnFile, <<1, 2>>)
    /\ soy_varieties = Pick(VarietiesOnFile, <<1, 2>>)
    /\ default_management \in SidebarManagements
    /\ selected_fields \in FieldSelections
    /\ session_state \in SessionStates(FieldKeys(selected_fields))

\* main, lines 972-973 and 1143-1144: one field of the page is scored with
\* the management _get_management_for_field picks for it
ScoreField ==
    \E crop \in {"Corn", "Soybeans"}, i \in 1..Len(selected_fields) :
        LET f    == selected_fields[i]
            mgmt == _get_management_for_field(f, default_management)
        IN  /\ fn' = "score_products_for_field"
            /\ args' = [crop |-> crop, selected_field |-> f, management |-> mgmt]
            /\ out' = score_products_for_field(crop, f, mgmt).results
            /\ session_state' = SessionAfterScoring(f)
            /\ default_management' = DefaultAfterScoring(f, default_management)
            /\ UNCHANGED <<pc, calls, history, corn_hybrids, soy_varieties,
                           selected_fields>>

SpecPage == InitPage /\ [][ScoreField]_vars

----------------------------------------------------------------------------

(* main, lines 995-1144: the per-field management controls.  Streamlit     *)
(* runs main from the top after every interaction.  A keyed widget holds   *)
(* its value under its key in st.session_state, and the user's input is    *)
(* stored there before the run starts; st.button returns True in the run   *)
(* its click started.  Each tab reads locked at its top (line 1005) and    *)
(* creates its widgets with disabled=locked before the button handlers     *)
(* run, so the controls on screen are the ones the last run created.       *)
(* A step below is one interaction together with the run it starts; out is *)
(* the page that run rendered: per field key the controls as created, and  *)
(* the management line 1143 picked for it.                                 *)

\* dict[key] = value
Put(dict, key, value) == (key :> value) @@ dict

\* lines 997-1002 and 1036-1043: "if key not in st.session_state" defaults;
\* base_mgmt is the saved dict when there is one, else the sidebar dict
TabDefaults(state, fk, management) ==
    LET base_mgmt == Get(state, <<"mgmt_saved", fk>>, management)
        default(name) ==
            CASE name = "mgmt_locked"    -> FALSE
              [] name = "mgmt_override"  -> FALSE
              [] name = "mgmt_prev_crop" -> base_mgmt.previous_crop
              [] name = "mgmt_tillage"   -> base_mgmt.tillage
              [] name = "mgmt_fungicide" -> base_mgmt.fungicide
              [] name = "mgmt_herbicide" -> base_mgmt.herbicide_program
        names == {"mgmt_locked", "mgmt_override", "mgmt_prev_crop",
                  "mgmt_tillage", "mgmt_fungicide", "mgmt_herbicide"}
    IN  state @@ [k \in {<<n, fk>> : n \in names} |-> default(k[1])]

\* the defaults of the tabs 1..n, in tab order
RECURSIVE WithDefaults(_, _, _, _)
WithDefaults(state, fields, n, management) ==
    IF n = 0 THEN state
    ELSE TabDefaults(WithDefaults(state, fields, n - 1, management),
                     _get_field_key(fields[n]), management)

\* lines 1078-1083: the dict Lock stores, read from the per-field widgets
Snapshot(state, fk) ==
    [previous_crop     |-> state[<<"mgmt_prev_crop", fk>>],
     tillage           |-> state[<<"mgmt_tillage", fk>>],
     herbicide_program |-> state[<<"mgmt_herbicide", fk>>],
     fungicide         |-> state[<<"mgmt_fungicide", fk>>]]

\* the controls of the tabs 1..n as created from the state each tab read at
\* its top; the Unlock button of the last tab is absent when the run ended
\* inside that tab's Lock handler
RECURSIVE Controls(_, _, _, _)
Controls(state, fields, n, ended_in_lock) ==
    IF n = 0 THEN <<>>
    ELSE Controls(state, fields, n - 1, FALSE)
            @@ (_get_field_key(fields[n])
                   :> [locked   |-> state[<<"mgmt_locked",
                                             _get_field_key(fields[n])>>],
                       override |-> state[<<"mgmt_override",
                                             _get_field_key(fields[n])>>],
                       unlock   |-> ~ended_in_lock])

\* lines 1143-1144 in the tabs 1..n
RECURSIVE ManagementsUsed(_)
ManagementsUsed(n) ==
    IF n = 0 THEN <<>>
    ELSE ManagementsUsed(n - 1)
            @@ (_get_field_key(selected_fields[n])
                   :> _get_management_for_field(selected_fields[n],
                                                default_management))

\* two fields with different keys are on the page
LockSelections ==
    {s \in FieldSelections : /\ Len(s) = 2
                             /\ s[1].id = <<"F", "1">>
                             /\ s[2].id = <<>>}

InitLock ==
    /\ fn = "main"
    /\ args = NoValue
    /\ pc = "start"
    /\ out = NoValue
    /\ calls = <<>>
    /\ history = <<>>
    /\ corn_hybrids = <<>>
    /\ soy_varieties = <<>>
    /\ default_management \in SidebarManagements
    /\ selected_fields \in LockSelections
    /\ session_state = <<>>

\* a run of main that no handler interrupts, started from the state the
\* user's input left; handled is what the button handlers make of it
Run(before, handled) ==
    /\ session_state' = handled
    /\ out' = [controls |-> Controls(before, selected_fields,
                                     Len(selected_fields), FALSE),
               used     |-> ManagementsUsed(Len(selected_fields))']

\* the first run of the session
Load ==
    /\ pc = "start"
    /\ pc' = "page"
    /\ UNCHANGED <<fn, args, calls, history, corn_hybrids, soy_varieties,
                   default_management, selected_fields>>
    /\ LET first == WithDefaults(session_state, selected_fields,
                                 Len(selected_fields), default_management)
       IN  Run(first, first)

\* the user changes the sidebar management
ChangeSidebar ==
    /\ pc = "page"
    /\ \E m \in SidebarManagements \ {default_management} :
          default_management' = m
    /\ UNCHANGED <<fn, args, pc, calls, history, corn_hybrids, soy_varieties,
                   selected_fields>>
    /\ LET before == WithDefaults(session_state, selected_fields,
                                  Len(selected_fields), default_management')
       IN  Run(before, before)

\* the control of field key fk is on the page and was created enabled
Enabled(fk) == fk \in DOMAIN out.controls /\ ~out.controls[fk].locked

\* the user clicks the override checkbox of a field (lines 1029-1033): the
\* value on screen is flipped and stored under the checkbox's key
ToggleOverride ==
    /\ pc = "page"
    /\ \E i \in 1..Len(selected_fields) :
          LET fk      == _get_field_key(selected_fields[i])
              checked == ~out.controls[fk].override
              before  == WithDefaults(
                             Put(session_state, <<"mgmt_override", fk>>, checked),
                             selected_fields, Len(selected_fields),
                             default_management)
          IN  /\ Enabled(fk)
              /\ history' = IF checked THEN history
                            ELSE [k \in DOMAIN history \ {fk} |-> history[k]]
              /\ UNCHANGED <<fn, args, pc, calls, corn_hybrids,
                             soy_varieties, default_management,
                             selected_fields>>
              /\ Run(before, before)

\* the user edits a per-field widget (lines 1045-1072)
EditWidget(name, values) ==
    /\ pc = "page"
    /\ \E i \in 1..Len(selected_fields) :
          LET fk == _get_field_key(selected_fields[i])
          IN  /\ Enabled(fk)
              /\ UNCHANGED <<fn, args, pc, calls, history, corn_hybrids,
                             soy_varieties, default_management,
                             selected_fields>>
              /\ \E v \in values \ {session_state[<<name, fk>>]} :
                    LET before == WithDefaults(
                                      Put(session_state, <<name, fk>>, v),
                                      selected_fields, Len(selected_fields),
                                      default_management)
                    IN  Run(before, before)

\* the herbicide multiselect; the other per-field widgets keep their values
EditHerbicide ==
    EditWidget("mgmt_herbicide",
               {m.herbicide_program : m \in SidebarManagements})

\* the user presses "Lock for this field" (lines 1076-1085).  Line 1078
\* stores the snapshot.  Line 1084 then assigns st.session_state[override_key],
\* the key of the checkbox line 1029 created earlier in the same run:
\* Streamlit refuses to modify the value of a widget through session state
\* once the widget is instantiated and raises StreamlitAPIException, which
\* ends the run there.  Both outcomes are kept: the assignments as written,
\* and the run that ends at line 1084.  history[fk] is what Lock captured.
Lock ==
    /\ pc = "page"
    /\ \E i \in 1..Len(selected_fields) :
          LET fk     == _get_field_key(selected_fields[i])
              before == WithDefaults(session_state, selected_fields,
                                     Len(selected_fields), default_management)
              stored == Put(before, <<"mgmt_saved", fk>>, Snapshot(before, fk))
          IN  /\ Enabled(fk)
              /\ history' = Put(history, fk, Snapshot(before, fk))
              /\ UNCHANGED <<fn, args, pc, calls, corn_hybrids,
                             soy_varieties, default_management,
                             selected_fields>>
              /\ \/ Run(before,
                        Put(Put(stored, <<"mgmt_override", fk>>, TRUE),
                            <<"mgmt_locked", fk>>, TRUE))
                 \/ /\ session_state' = stored
                    /\ out' = [controls |-> Controls(before, selected_fields,
                                                     i, TRUE),
                               used     |-> ManagementsUsed(i - 1)']

\* the user presses "Unlock" (lines 1087-1088)
Unlock ==
    /\ pc = "page"
    /\ \E i \in 1..Len(selected_fields) :
          LET fk     == _get_field_key(selected_fields[i])
              before == WithDefaults(session_state, selected_fields,
                                     Len(selected_fields), default_management)
          IN  /\ fk \in DOMAIN out.controls
              /\ out.controls[fk].unlock
              /\ out.controls[fk].locked
              /\ UNCHANGED <<fn, args, pc, calls, history, corn_hybrids,
                             soy_varieties, default_management,
                             selected_fields>>
              /\ Run(before, Put(before, <<"mgmt_locked", fk>>, FALSE))

NextLock ==
    \/ Load
    \/ ChangeSidebar
    \/ ToggleOverride
    \/ EditHerbicide
    \/ Lock
    \/ Unlock

SpecLock == InitLock /\ [][NextLock]_vars

----------------------------------------------------------------------------

(* score_scn_resistance applied to one input.                              *)

MaxHistory == 4

\* resistance sources: absent, the string "None", listed ones, an unlisted one
ScnSources == {NoneStr, "None", "Peking", "PI 88788", "PI 437654", "Unlisted"}

\* what the grower planted, oldest first: a list of source names
PlantingHistories ==
    UNION {[1..n -> {"Peking", "PI 88788", "Unlisted"}] : n \in 0..MaxHistory}

ScnArgs ==
    [scn_source : ScnSources,
     risk : {RInt(0), Rat(8, 10), RInt(1)},
     source_history : PlantingHistories]

InitScn ==
    /\ fn = "score_scn_resistance"
    /\ args \in ScnArgs
    /\ pc = "call"
    /\ out = NoValue
    /\ calls = <<>>
    /\ corn_hybrids = <<>>
    /\ soy_varieties = <<>>
    /\ history = <<>>
    /\ NoSession

CallScnResistance ==
    /\ fn = "score_scn_resistance"
    /\ pc = "call"
    /\ pc' = "done"
    /\ out' = score_scn_resistance(args.scn_source, args.risk,
                                   args.source_history)
    /\ UNCHANGED <<fn, args, calls, globals, history>>

SpecScn == InitScn /\ [][CallScnResistance]_vars

----------------------------------------------------------------------------

(* src/gemx_llm.py: generate_field_reasons and its templated fallback.     *)
(*                                                                         *)
(* A text handed to _clip_sentences is held as the sequence of its         *)
(* sentences (the pieces re.split(r"(?<=[.!?])\s+") yields); the rule      *)
(* explanations and warnings of the scorers hold no sentence break.  A     *)
(* dict of reasons is a function from recommendation id to text.           *)

Min(a, b) == IF a <= b THEN a ELSE b

\* " ".join(parts)
RECURSIVE JoinSpace(_)
JoinSpace(parts) ==
    IF Len(parts) = 0 THEN ""
    ELSE IF Len(parts) = 1 THEN parts[1]
    ELSE parts[1] \o " " \o JoinSpace(Tail(parts))

\* "" for an empty or blank text, else the first max_sentences sentences
_clip_sentences(text, max_sentences) ==
    JoinSpace(SubSeq(SelectSeq(text, LAMBDA p : p # ""), 1,
                     Min(max_sentences, Len(SelectSeq(text, LAMBDA p : p # "")))))

\* crop.lower()
Lower(crop) == IF crop = "Corn" THEN "corn" ELSE "soybeans"

_fallback_reason(rule_explanations, rule_warnings, crop) ==
    LET expl == SelectSeq(rule_explanations, LAMBDA e : e # "")
        warn == SelectSeq(rule_warnings, LAMBDA w : w # "")
        base == SubSeq(expl, 1, Min(2, Len(expl)))
    IN  IF expl # <<>>
        THEN IF warn # <<>>
             THEN _clip_sentences(<<"Selected because " \o JoinComma(base) \o ".",
                                    "Watch: " \o warn[1] \o ".">>, 2)
             ELSE _clip_sentences(<<"Selected because " \o JoinComma(base) \o ".">>,
                                  2)
        ELSE IF warn # <<>>
        THEN _clip_sentences(<<"Selected as a good overall fit for this "
                                   \o Lower(crop) \o " field.",
                               "Watch: " \o warn[1] \o ".">>, 2)
        ELSE _clip_sentences(<<"Selected as a strong overall fit for this "
                                   \o Lower(crop)
                                   \o " field based on maturity and trait match.">>,
                             2)

\* f"{product.get('brand', '')} {product.get('name', '')}".strip(); an absent
\* brand or name is ""
RecId(product) ==
    IF product.brand = "" THEN product.name
    ELSE IF product.name = "" THEN product.brand
    ELSE product.brand \o " " \o product.name

ItemFallback(item, crop) ==
    _fallback_reason(item.result.explanations, item.result.warnings, crop)

RankedIds(ranked_results) ==
    {RecId(ranked_results[i].product) : i \in 1..Len(ranked_results)}

\* "for item in ranked_results: reasons[rec_id] = _fallback_reason(...)": every
\* ranked id is overwritten, the last item of an id deciding
FallbackAll(reasons, ranked_results, crop) ==
    [k \in DOMAIN reasons \cup RankedIds(ranked_results) |->
        IF k \in RankedIds(ranked_results)
        THEN LET last == CHOOSE i \in 1..Len(ranked_results) :
                             /\ RecId(ranked_results[i].product) = k
                             /\ \A j \in (i + 1)..Len(ranked_results) :
                                    RecId(ranked_results[j].product) # k
             IN  ItemFallback(ranked_results[last], crop)
        ELSE reasons[k]]

\* variant: the closing loop over ranked_results is left out
FillNothing(reasons, ranked_results, crop) == reasons

\* "if rec_id not in reasons: reasons[rec_id] = _fallback_reason(...)": the
\* first item of a missing id decides
FillMissing(reasons, ranked_results, crop) ==
    [k \in DOMAIN reasons \cup RankedIds(ranked_results) |->
        IF k \in DOMAIN reasons THEN reasons[k]
        ELSE LET first == CHOOSE i \in 1..Len(ranked_results) :
                              /\ RecId(ranked_results[i].product) = k
                              /\ \A j \in 1..(i - 1) :
                                     RecId(ranked_results[j].product) # k
             IN  ItemFallback(ranked_results[first], crop)]

\* An entry of parsed["reasons"] is [bad, id, reason]: bad names what makes
\* the loop body raise on it ("" when nothing does), id is "" when the key is
\* missing or null, reason is a text.
EntryRaises(entry) == entry.bad # ""

\* the entries the loop stores: "if rec_id and reason"
Stored(entries) ==
    SelectSeq(entries, LAMBDA e : e.id # "" /\ _clip_sentences(e.reason, 2) # "")

\* reasons after the loop ran over entries; a later entry of an id overwrites
ReasonsFrom(entries) ==
    LET kept == Stored(entries)
    IN  [k \in {kept[i].id : i \in 1..Len(kept)} |->
            LET last == CHOOSE i \in 1..Len(kept) :
                            /\ kept[i].id = k
                            /\ \A j \in (i + 1)..Len(kept) : kept[j].id # k
            IN  _clip_sentences(kept[last].reason, 2)]

\* The try block: provider.generate, json.loads and the loop over
\* parsed.get("reasons", []).  exc is the exception that ends it (NoneStr when
\* it completes) and reasons what the loop stored before.
TryBody(provider) ==
    CASE provider.kind = "raises" ->
             [exc |-> "URLError", reasons |-> <<>>]
      [] provider.kind = "not_json" ->
             [exc |-> "JSONDecodeError", reasons |-> <<>>]
      [] provider.kind = "json_not_dict" ->
             [exc |-> "AttributeError", reasons |-> <<>>]
      [] provider.kind = "reasons_not_list" ->
             [exc |-> "TypeError", reasons |-> <<>>]
      [] OTHER ->
             LET entries == provider.reasons
                 bad == {i \in 1..Len(entries) : EntryRaises(entries[i])}
                 stop == IF bad = {} THEN Len(entries) + 1
                         ELSE CHOOSE i \in bad : \A j \in bad : i <= j
             IN  [exc |-> IF bad = {} THEN NoneStr ELSE "AttributeError",
                  reasons |-> ReasonsFrom(SubSeq(entries, 1, stop - 1))]

\* "except Exception": every exception the try block can end with
Caught(exc) ==
    exc \in {"URLError", "JSONDecodeError", "AttributeError", "TypeError"}

Returned(reasons) == [raised |-> NoneStr, reasons |-> reasons]

generate_field_reasons(crop, ranked_results, provider) ==
    IF ranked_results = <<>> THEN Returned(<<>>)
    ELSE IF provider.kind = "absent"
    THEN Returned(FallbackAll(<<>>, ranked_results, crop))
    ELSE LET attempt == CHOOSE t \in {TryBody(provider)} : TRUE
         IN  IF attempt.exc = NoneStr
             THEN Returned(FillMissing(attempt.reasons, ranked_results, crop))
             ELSE IF Caught(attempt.exc)
             THEN Returned(FillMissing(FallbackAll(attempt.reasons, ranked_results,
                                                   crop),
                                       ranked_results, crop))
             ELSE Raised(attempt.exc, "")

(* generate_field_reasons applied to one ranking and one provider.         *)

MaxRanked == 2
MaxEntries == 2

\* entries of a ranking: a product and its scorer result.  The first and the
\* third have the same recommendation id; the second has no brand; the third
\* carries a blank explanation.
RankedItems ==
    {[product |-> [brand |-> "Brand", name |-> "A"],
      result  |-> [explanations |-> <<"RM 105 fits well",
                                      "Excellent standability",
                                      "Good GLS tolerance for high-risk field">>,
                   warnings     |-> <<"Tar spot risk - scout closely",
                                      "GLS risk - consider fungicide">>]],
     [product |-> [brand |-> "", name |-> "B"],
      result  |-> [explanations |-> <<>>,
                   warnings     |-> <<"Low drought tolerance risk">>]],
     [product |-> [brand |-> "Brand", name |-> "A"],
      result  |-> [explanations |-> <<"", "MG 2.7 fits zone well">>,
                   warnings     |-> <<>>]],
     [product |-> [brand |-> "Brand", name |-> "C"],
      result  |-> [explanations |-> <<>>, warnings |-> <<>>]]}

\* results[:5] cut down to MaxRanked: distinct entries in any order
Rankings ==
    {r \in UNION {[1..n -> RankedItems] : n \in 0..MaxRanked} :
        \A i, j \in 1..Len(r) : r[i] = r[j] => i = j}

\* what the provider's JSON may hold under "reasons"
ReasonEntries ==
    [bad : {""}, id : {"", "Brand A", "B", "Unknown X"},
     reason : {<<>>, <<"Fits the field.">>, <<"One.", "Two.", "Three.">>}]
    \cup
    [bad : {"item_not_dict", "reason_not_str"}, id : {""}, reason : {<<>>}]

\* no provider; a provider that raises; one that answers text that is not
\* JSON; JSON that is not an object; an object whose "reasons" is not a list;
\* an object with a list of entries (empty when the key is missing)
Providers ==
    [kind : {"absent", "raises", "not_json", "json_not_dict", "reasons_not_list"},
     reasons : {<<>>}]
    \cup
    [kind : {"json"},
     reasons : UNION {[1..n -> ReasonEntries] : n \in 0..MaxEntries}]

InitReasons ==
    /\ fn = "generate_field_reasons"
    /\ args \in [crop : {"Corn", "Soybeans"}, ranked_results : Rankings,
                 provider : Providers]
    /\ pc = "call"
    /\ out = NoValue
    /\ calls = <<>>
    /\ corn_hybrids = <<>>
    /\ soy_varieties = <<>>
    /\ history = <<>>
    /\ NoSession

CallGenerateFieldReasons ==
    /\ fn = "generate_field_reasons"
    /\ pc = "call"
    /\ pc' = "done"
    /\ out' = generate_field_reasons(args.crop, args.ranked_results, args.provider)
    /\ UNCHANGED <<fn, args, calls, globals, history>>

SpecReasons == InitReasons /\ [][CallGenerateFieldReasons]_vars

----------------------------------------------------------------------------

(* score_products_for_field run on two records of the same soil that       *)
(* differ in what the page shows of the field: boundary, acreage, names.   *)

TwinFields == {WithBoundary(f, b) : f \in RankFields, b \in Boundaries}

TwinArgs ==
    {a \in [crop : {"Corn", "Soybeans"}, selected_field : TwinFields,
            twin : TwinFields, management : RankManagements] :
        /\ a.selected_field.environment = a.twin.environment
        /\ a.selected_field.disease_risk = a.twin.disease_risk}

InitTwin ==
    /\ fn = "score_products_for_field"
    /\ args \in TwinArgs
    /\ pc = "call"
    /\ out = NoValue
    /\ calls = <<>>
    /\ corn_hybrids = Pick(HybridsOnFile, <<1, 2, 4>>)
    /\ soy_varieties = Pick(VarietiesOnFile, <<1, 2, 4>>)
    /\ history = <<>>
    /\ NoSession

\* the ranking of each of the two records, under the same crop and management
CallOnTwins ==
    /\ fn = "score_products_for_field"
    /\ pc = "call"
    /\ pc' = "done"
    /\ out' = <<score_products_for_field(args.crop, args.selected_field,
                                         args.management).results,
                score_products_for_field(args.crop, args.twin,
                                         args.management).results>>
    /\ UNCHANGED <<fn, args, calls, globals, history>>

SpecTwin == InitTwin /\ [][CallOnTwins]_vars

----------------------------------------------------------------------------

(* The FeatureExtractor derivations, each applied to one input.  The       *)
(* reference tables are json files read at construction (an absent file    *)
(* leaves {}); they are modelled by small tables of the same shape.        *)

GddTables ==
    {GddTable, NoTable,
     [corn    |-> [safety |-> None, rows |-> GddTable.corn.rows],
      soybean |-> [safety |-> 200, rows |-> GddTable.soybean.rows]]}

\* disease_risk_baselines.json: a full table, one lacking diseases, and {}
DiseaseBaselines ==
    {[corn    |-> [gray_leaf_spot       |-> [IA |-> Rat(6, 10)],
                   northern_leaf_blight |-> [IA |-> Rat(4, 10)],
                   tar_spot             |-> [IA |-> Rat(5, 10)],
                   gosss_wilt           |-> [IA |-> Rat(1, 10)]],
      soybean |-> [sudden_death_syndrome     |-> [IA |-> Rat(8, 10)],
                   soybean_cyst_nematode     |-> [IA |-> Rat(8, 10)],
                   phytophthora              |-> [IA |-> Rat(4, 10)],
                   white_mold                |-> [IA |-> Rat(9, 10)],
                   iron_deficiency_chlorosis |-> [IA |-> Rat(1, 10)]]],
     [corn    |-> [gray_leaf_spot |-> [IA |-> Rat(9, 10)]]],
     <<>>}

InitFeatures ==
    /\ \/ /\ fn = "derive_target_maturity"
          /\ args \in [gdd_conversion : GddTables,
                       gdd_mean : {None, 0, 2300, 2450, 2550, 2600, 2700,
                                   2800, 2850, 3000},
                       crop : {"corn", "soybean"}]
       \/ /\ fn = "derive_drought_risk"
          /\ args \in
               [soil : [aws_0_100 : {NoValue, RInt(0), RInt(10), RInt(15),
                                     RInt(20), RInt(25), RInt(30)},
                        sand_pct : {NoValue, RInt(0), RInt(50), RInt(60)}],
                weather : [growing_season_precip_mm :
                               {NoValue, RInt(0), RInt(400), RInt(450),
                                RInt(550)},
                           precip_cv : {NoValue, RInt(0), Rat(25, 100),
                                        Rat(3, 10), Rat(4, 10)}],
                irrigation : {"none", "pivot", "drip", "flood"}]
       \/ /\ fn = "derive_disease_risks"
          /\ args \in
               [disease_baselines : DiseaseBaselines,
                soil : [drainage_class : {"Well drained", "Poorly drained"},
                        ph : {NoValue, Rat(65, 10), RInt(8)}],
                management : [previous_crop : {"corn", "soybean"},
                              tillage : {"no-till", "minimum-till",
                                         "conventional"},
                              soy_frequency_5yr : {None, 3},
                              row_spacing : {15, 30}],
                state : {"IA", "ZZ"},
                crop : {"corn", "soybean"}]
    /\ pc = "call"
    /\ out = NoValue
    /\ calls = <<>>
    /\ corn_hybrids = <<>>
    /\ soy_varieties = <<>>
    /\ history = <<>>
    /\ NoSession

CallDeriveTargetMaturity ==
    /\ fn = "derive_target_maturity"
    /\ pc = "call"
    /\ pc' = "done"
    /\ out' = derive_target_maturity(args.gdd_conversion, args.gdd_mean,
                                     args.crop)
    /\ UNCHANGED <<fn, args, calls, globals, history>>

CallDeriveDroughtRisk ==
    /\ fn = "derive_drought_risk"
    /\ pc = "call"
    /\ pc' = "done"
    /\ out' = derive_drought_risk(args.soil, args.weather, args.irrigation)
    /\ UNCHANGED <<fn, args, calls, globals, history>>

CallDeriveDiseaseRisks ==
    /\ fn = "derive_disease_risks"
    /\ pc = "call"
    /\ pc' = "done"
    /\ out' = derive_disease_risks(args.disease_baselines, args.soil,
                                   args.management, args.state, args.crop)
    /\ UNCHANGED <<fn, args, calls, globals, history>>

NextFeatures ==
    \/ CallDeriveTargetMaturity
    \/ CallDeriveDroughtRisk
    \/ CallDeriveDiseaseRisks

SpecFeatures == InitFeatures /\ [][NextFeatures]_vars

----------------------------------------------------------------------------

(* The ratio-based disease scoring of the dict scorers on its own: two     *)
(* per-disease scores are appended to disease_scores and averaged.         *)

MaxRisk == 10

InitRatio ==
    /\ fn = "disease_scores"
    /\ args \in [traits : Ratings \X Ratings,
                 risks : (0..MaxRisk) \X (0..MaxRisk)]
    /\ pc = "call"
    /\ out = NoValue
    /\ calls = <<>>
    /\ corn_hybrids = <<>>
    /\ soy_varieties = <<>>
    /\ history = <<>>
    /\ NoSession

AverageDiseaseScores ==
    /\ fn = "disease_scores"
    /\ pc = "call"
    /\ pc' = "done"
    /\ out' = LET disease_scores ==
                      <<RatioScore(args.traits[1], args.risks[1]),
                        RatioScore(args.traits[2], args.risks[2])>>
              IN  [disease_scores |-> disease_scores,
                   disease        |-> Mean(disease_scores)]
    /\ UNCHANGED <<fn, args, calls, globals, history>>

SpecRatio == InitRatio /\ [][AverageDiseaseScores]_vars

----------------------------------------------------------------------------

(* score_maturity_fit applied to one input.                                *)

InitMaturity ==
    /\ fn = "score_maturity_fit"
    /\ args \in MaturityArgs
    /\ pc = "call"
    /\ out = NoValue
    /\ calls = <<>>
    /\ corn_hybrids = <<>>
    /\ soy_varieties = <<>>
    /\ history = <<>>
    /\ NoSession

CallMaturityFit ==
    /\ fn = "score_maturity_fit"
    /\ pc = "call"
    /\ pc' = "done"
    /\ out' = score_maturity_fit(args.product_maturity, args.target_range)
    /\ UNCHANGED <<fn, args, calls, globals, history>>

SpecMaturity == InitMaturity /\ [][CallMaturityFit]_vars

(* match_tolerance_to_risk applied to one input.                           *)

InitMatch ==
    /\ fn = "match_tolerance_to_risk"
    /\ args \in MatchArgs
    /\ pc = "call"
    /\ out = NoValue
    /\ calls = <<>>
    /\ corn_hybrids = <<>>
    /\ soy_varieties = <<>>
    /\ history = <<>>
    /\ NoSession

CallMatchTolerance ==
    /\ fn = "match_tolerance_to_risk"
    /\ pc = "call"
    /\ pc' = "done"
    /\ out' = match_tolerance_to_risk(args.tolerance_rating, args.risk_level)
    /\ UNCHANGED <<fn, args, calls, globals, history>>

SpecMatch == InitMatch /\ [][CallMatchTolerance]_vars

----------------------------------------------------------------------------
(* Properties of match_tolerance_to_risk (SpecMatch).                      *)

MatchDone == fn = "match_tolerance_to_risk" /\ pc = "done"

\* C2: for every integer rating 1..9 and every risk level in [0,1] the value
\* returned by match_tolerance_to_risk lies in [0,1].
C2_MatchBounded ==
    (MatchDone /\ args.tolerance_rating \in Ratings)
        => RLeq(RInt(0), out) /\ RLeq(out, RInt(1))

\* the weakest rating under the highest risk: the 0.2 floor is what is returned
C2_Witness ==
    /\ MatchDone
    /\ args.tolerance_rating = 1
    /\ args.risk_level = RInt(1)
    /\ out = Rat(2, 10)

\* The three regimes in closed form, for rating r and risk p/q:
\*   low            0.7 + 0.3 r/9                = (21 + r) / 30
\*   moderate, met  0.85 + 0.15 (r/9 - p/q)      = (153q + 3rq - 27p) / 180q
\*   moderate, gap  0.85 - 1.5 (p/q - r/9)       = (153q + 30rq - 270p) / 180q
\*   high, met      0.9 + (0.1/0.3)(r/9 - 0.7)   = (18 + r) / 27
\*   high, gap      0.9 - 2.0 (0.7 - r/9)        = (4r - 9) / 18
ThreeRegimeReference(r, risk) ==
    LET p == risk[1]
        q == risk[2]
    IN  IF r = None THEN Rat(1, 2)
        ELSE IF 10 * p < 3 * q THEN Rat(21 + r, 30)
        ELSE IF 10 * p < 7 * q
        THEN IF r * q >= 9 * p
             THEN Rat(153 * q + 3 * r * q - 27 * p, 180 * q)
             ELSE RMax(Rat(3, 10), Rat(153 * q + 30 * r * q - 270 * p, 180 * q))
        ELSE IF 10 * r >= 63
             THEN Rat(18 + r, 27)
             ELSE RMax(Rat(2, 10), Rat(4 * r - 9, 18))

\* C3: match_tolerance_to_risk equals the three-regime reference on every
\* input: 0.5 for an absent rating, and the regime boundaries risk = 0.3 and
\* risk = 0.7 belong to the higher regime.
C3_MatchIsThreeRegime ==
    MatchDone => out = ThreeRegimeReference(args.tolerance_rating, args.risk_level)

\* risk exactly 0.3 with a rating that meets it is scored by the moderate regime
C3_Witness ==
    /\ MatchDone
    /\ args.tolerance_rating = 9
    /\ args.risk_level = Rat(3, 10)
    /\ out = Rat(955, 1000)

----------------------------------------------------------------------------
(* Properties of score_maturity_fit (SpecMaturity).                        *)

MaturityDone == fn = "score_maturity_fit" /\ pc = "done"

Ordered(w) == RLeq(w[1], w[2]) /\ RLeq(w[2], w[3])

StrictlyOrdered(w) == RLt(w[1], w[2]) /\ RLt(w[2], w[3])

Inside(v, w) == RLeq(w[1], v) /\ RLeq(v, w[3])

\* C4: for min <= opt <= max, score_maturity_fit is 0 strictly outside the
\* window, greater than 0 everywhere inside it (both edges included), and
\* exactly 1 at the optimum.
C4_MaturityWindow ==
    (MaturityDone /\ Ordered(args.target_range)) =>
        LET v == args.product_maturity
            w == args.target_range
        IN  /\ ~Inside(v, w) => out = RInt(0)
            /\ Inside(v, w) => RLt(RInt(0), out)
            /\ v = w[2] => out = RInt(1)

\* a maturity on the lower edge of a proper window scores above zero
C4_Witness ==
    /\ MaturityDone
    /\ StrictlyOrdered(args.target_range)
    /\ args.product_maturity = args.target_range[1]
    /\ RLt(RInt(0), out)

\* the distance from the optimum as a fraction of the half-window it lies in
NormalizedDistance(v, w) ==
    IF RLeq(v, w[2])
    THEN RDiv(RSub(w[2], v), RSub(w[2], w[1]))
    ELSE RDiv(RSub(v, w[2]), RSub(w[3], w[2]))

\* C5: for every window min < opt < max (the soybean windows of
\* derive_target_maturity included) the score inside the window is
\* 1 - 0.3 d with d the normalized distance, hence 0.7 on both edges.
C5_TentOnEveryWindow ==
    (MaturityDone /\ StrictlyOrdered(args.target_range)
                  /\ Inside(args.product_maturity, args.target_range)) =>
        out = RSub(RInt(1),
                   RMul(Rat(3, 10),
                        NormalizedDistance(args.product_maturity,
                                           args.target_range)))

----------------------------------------------------------------------------
(* Properties of the scoring functions (SpecScoring).                      *)

CornDone == fn = "calculate_corn_score" /\ pc = "done"

SoyDone == fn = "calculate_soy_score" /\ pc = "done"

ScorerDone == CornDone \/ SoyDone

CompositeDone == fn = "calculate_composite_score" /\ pc = "done"

InPercentRange(x) == RLeq(RInt(0), x) /\ RLeq(x, RInt(100))

\* C1: every result of calculate_corn_score and calculate_soy_score has a
\* score in [0,100]; a filtered result has score 0 and carries a reason; and
\* the composite of calculate_composite_score, which has no clamp, is in
\* [0,100] for ratings in 1..9 and risks in [0,1], for both crops.
C1_ScoreInRange ==
    /\ ScorerDone =>
          /\ InPercentRange(out.score)
          /\ out.filtered =>
                /\ out.score = RInt(0)
                /\ "reason" \in DOMAIN out
                /\ out.reason # ""
    /\ CompositeDone => InPercentRange(out[1])

\* a hybrid whose weighted sum exceeds 100 (drought sub-score 180 on a droughty
\* field) is returned with score exactly 100
C1_Witness ==
    /\ CornDone
    /\ ~out.filtered
    /\ out.scores.drought = RInt(180)
    /\ out.score = RInt(100)

\* the herbicides of a program whose trait tag the product lacks
RequiredTag(herbicide) ==
    CASE herbicide = "Roundup" -> "RR2"
      [] herbicide = "Liberty" -> "LL"
      [] herbicide = "Dicamba" -> "XtendFlex"
      [] herbicide = "Enlist"  -> "Enlist E3"

UnmetHerbicides(product, management) ==
    {h \in management.herbicide_program :
        RequiredTag(h) \notin product.herbicide_traits}

ScoredProduct == IF fn = "calculate_corn_score" THEN args.hybrid ELSE args.variety

\* C7: for either crop, a program containing a herbicide whose tag (Roundup
\* RR2, Liberty LL, Dicamba XtendFlex, Enlist "Enlist E3") the product lacks
\* gives filtered = true with score 0 and a reason.
C7_HerbicideFilterBothCrops ==
    (ScorerDone /\ UnmetHerbicides(ScoredProduct, args.management) # {}) =>
        /\ out.filtered
        /\ out.score = RInt(0)
        /\ out.reason # ""

CornMargin ==
    args.field.environment.gdd_normal - (25 * args.hybrid.relative_maturity + 100)

\* C8: a corn hybrid that passes the maturity filter, scored under a program
\* containing Roundup while it lacks RR2, is filtered with score 0 and a
\* reason naming RR2, whatever the previous crop, tillage and the rest of the
\* program (also when LL is missing as well).
C8_CornMissingRR2 ==
    (CornDone /\ CornMargin >= -100
              /\ "Roundup" \in args.management.herbicide_program
              /\ "RR2" \notin args.hybrid.herbicide_traits) =>
        /\ out.filtered
        /\ out.score = RInt(0)
        /\ out.reason = "Missing RR2 trait for herbicide program"

\* the spec's scenario with Liberty added: RM 111, GDD normal 2850, corn after
\* corn, a hybrid with neither RR2 nor LL
C8_Witness ==
    /\ CornDone
    /\ args.hybrid.relative_maturity = 111
    /\ args.field.environment.gdd_normal = 2850
    /\ args.management.previous_crop = "Corn"
    /\ args.management.herbicide_program = {"Roundup", "Liberty"}
    /\ args.hybrid.herbicide_traits = {}
    /\ out.filtered
    /\ out.reason = "Missing RR2 trait for herbicide program"

SubScores ==
    IF ScorerDone
    THEN {out.scores[k] : k \in DOMAIN out.scores}
    ELSE {out[2][k] : k \in DOMAIN out[2]}

\* C10: every sub-score of a non-filtered result is in [0,100]: each entry of
\* the scores map of the dict-based scorers and each ComponentScores field,
\* for all ratings 1..9 and all environments, AWC < 0.15 included.
C10_SubScoresInRange ==
    ((ScorerDone /\ ~out.filtered) \/ CompositeDone) =>
        \A x \in SubScores : InPercentRange(x)

----------------------------------------------------------------------------
(* Properties of score_products_for_field (SpecRank).                      *)

RankDone == fn = "score_products_for_field" /\ pc = "done"

RankResult(product) ==
    score_func(args.crop, product, args.selected_field, args.management)

Kept(products) == {i \in 1..Len(products) : ~RankResult(products[i]).filtered}

\* C6: score_products_for_field hands every product of the selected crop's
\* catalog to the scorer exactly once, in catalog order and without early
\* exit; it returns exactly the non-filtered products, each once and with
\* its result, ordered by non-increasing score; so catalog size minus the
\* length of the list is the number of filtered products.
C6_RankingComplete ==
    RankDone =>
        LET products == Products(args.crop)
        IN  /\ calls = [i \in 1..Len(products) |-> products[i].name]
            /\ {out[k].product : k \in 1..Len(out)}
                  = {products[i] : i \in Kept(products)}
            /\ Len(out) = Cardinality(Kept(products))
            /\ \A k \in 1..Len(out) : out[k].result = RankResult(out[k].product)
            /\ \A k \in 1..(Len(out) - 1) :
                  RLeq(out[k + 1].result.score, out[k].result.score)
            /\ filtered_count(args.crop, out)
                  = Len(products) - Cardinality(Kept(products))

\* a three-product catalog of which one product is filtered and the other two
\* come back in the opposite of their catalog order
C6_Witness ==
    /\ RankDone
    /\ Len(Products(args.crop)) = 3
    /\ Len(out) = 2
    /\ RLt(out[2].result.score, out[1].result.score)
    /\ \E i, j \in 1..3 :
          /\ i < j
          /\ Products(args.crop)[i] = out[2].product
          /\ Products(args.crop)[j] = out[1].product

----------------------------------------------------------------------------
(* Properties of a session of calls (SpecSession).                         *)

----------------------------------------------------------------------------
(* Properties of the scorers on products with absent ratings               *)
(* (SpecOptional).                                                         *)

\* C11: no scoring computation raises when optional 1-9 ratings are absent
\* from the product: whatever subset of the ratings is missing, the dict
\* scorers return a result (scored or filtered) and the structured engine
\* returns a composite in 0..100 whose stress sub-score falls back on the
\* neutral 0.5 match (or the 0.8 aggregate) when both stress ratings are absent.
C11_MissingRatingsNeverRaise ==
    pc = "done" =>
        /\ fn \in {"calculate_corn_score", "calculate_soy_score"}
              => "filtered" \in DOMAIN out
        /\ fn = "calculate_composite_score"
              => /\ InPercentRange(out[1])
                 /\ (args.product.drought_tolerance = None
                       /\ args.product.emergence_vigor = None)
                        => out[2].stress_tolerance \in {RInt(50), RInt(80)}

----------------------------------------------------------------------------
(* Properties of the page (SpecPage).                                      *)

----------------------------------------------------------------------------
(* Population recommendation of the dict scorers (SpecScoring).            *)

\* C13: on a field with AWC >= 0.15 and drainage class "Poorly Drained" or
\* "Somewhat Poorly Drained" a non-filtered corn hybrid is recommended the
\* midpoint int((low+high)/2) of its population range and a non-filtered
\* soybean variety the high end; on any field with AWC < 0.15 both crops are
\* recommended the low end; the recommendation always lies in [low, high].
C13_DrainagePolicy ==
    (ScorerDone /\ ~out.filtered) =>
        LET env  == args.field.environment
            low  == ScoredProduct.population_range[1]
            high == ScoredProduct.population_range[2]
            heavy == env.drainage_class
                         \in {"Poorly Drained", "Somewhat Poorly Drained"}
        IN  /\ RLt(env.awc, Rat(15, 100)) => out.population = low
            /\ (RLeq(Rat(15, 100), env.awc) /\ heavy /\ CornDone)
                  => out.population = (low + high) \div 2
            /\ (RLeq(Rat(15, 100), env.awc) /\ heavy /\ SoyDone)
                  => out.population = high
            /\ low <= out.population /\ out.population <= high

\* a soybean variety scored on a poorly drained field with AWC exactly 0.15
\* is recommended the high end, which is not the midpoint
C13_Witness ==
    /\ SoyDone
    /\ ~out.filtered
    /\ args.field.environment.awc = Rat(15, 100)
    /\ args.field.environment.drainage_class = "Somewhat Poorly Drained"
    /\ out.population = args.variety.population_range[2]
    /\ out.population # Midpoint(args.variety.population_range)

----------------------------------------------------------------------------
(* Soybean maturity bands (SpecScoring).                                   *)

\* C14: a soybean variety with MG 2.7 on a field with GDD normal 2800 (ideal
\* MG 3.0, difference exactly 0.3) is not filtered for maturity, gets maturity
\* sub-score 80, and gets no borderline-maturity warning.
C14_SoyMaturityScenario ==
    (SoyDone /\ args.variety.maturity_group = 27
             /\ args.field.environment.gdd_normal = 2800) =>
        /\ out.filtered => out.reason \in {"Missing XtendFlex for dicamba program",
                                           "Missing Enlist E3 for 2,4-D program"}
        /\ ~out.filtered =>
              /\ out.scores.maturity = RInt(80)
              /\ ~InSeq("MG 2.7 is borderline", out.warnings)

----------------------------------------------------------------------------
(* Properties of score_scn_resistance (SpecScn).                           *)

ScnDone == fn = "score_scn_resistance" /\ pc = "done"

PekingExample ==
    [scn_source |-> "Peking", risk |-> Rat(8, 10),
     source_history |-> <<"Peking", "Peking", "PI 88788">>]

\* C15: score_scn_resistance returns a value in [0,1] for every resistance
\* source (listed, unlisted or absent), every risk in [0,1] and every planting
\* history; for source "Peking", risk 0.8 and history ["Peking", "Peking",
\* "PI 88788"] the result is 0.85 * (1 - 0.1*2) = 0.68, with no rotation bonus.
C15_ScnBounded ==
    ScnDone =>
        /\ RLeq(RInt(0), out) /\ RLeq(out, RInt(1))
        /\ args = PekingExample => out = Rat(68, 100)

\* the Peking example has been scored
C15_Witness == ScnDone /\ args = PekingExample /\ out = Rat(68, 100)

\* the length of the longest run of consecutive entries of seq equal to x
LongestRun(x, seq) ==
    LET runs == {<<i, j>> \in (1..Len(seq)) \X (1..Len(seq)) :
                    i <= j /\ \A k \in i..j : seq[k] = x}
    IN  IF runs = {} THEN 0
        ELSE LET r == CHOOSE r \in runs :
                          \A q \in runs : q[2] - q[1] <= r[2] - r[1]
             IN  r[2] - r[1] + 1

\* the base score times (1 - 0.1*k), k the consecutive occurrences of the
\* source in the last three entries; the base score when it does not occur
ConsecutivePenalty(scn_source, source_history) ==
    IF InSeq(scn_source, LastK(source_history, 3))
    THEN RMul(ScnBaseScore(scn_source),
              RSub(RInt(1),
                   RMul(Rat(1, 10),
                        RInt(LongestRun(scn_source, LastK(source_history, 3))))))
    ELSE ScnBaseScore(scn_source)

\* C19: whenever the product's resistance source appears in the last three
\* entries of the planting history, score_scn_resistance multiplies the base
\* score by (1 - 0.1*k), k the number of consecutive occurrences of the source
\* in those entries; when it does not appear there, no penalty is applied.
\* The result is that penalised score, with or without the rotation bonus.
C19_RotationPenalty ==
    ScnDone =>
        LET expected == ConsecutivePenalty(args.scn_source, args.source_history)
        IN  out \in {expected, RMin(RInt(1), RMul(expected, Rat(11, 10)))}

\* C20: whenever the product's resistance source does not appear in the last
\* two entries of the planting history (also when the history is empty or
\* shorter than two entries), score_scn_resistance multiplies the penalised
\* score by 1.1 and caps it at 1.0; when the source appears in the last two
\* entries no bonus is applied.
C20_RotationBonus ==
    ScnDone =>
        LET penalised == ScnPenalised(args.scn_source, args.source_history)
        IN  out = IF ~InSeq(args.scn_source, LastK(args.source_history, 2))
                  THEN RMin(RInt(1), RMul(penalised, Rat(11, 10)))
                  ELSE penalised

----------------------------------------------------------------------------
(* Properties of generate_field_reasons (SpecReasons).                     *)

ReasonsDone == fn = "generate_field_reasons" /\ pc = "done"

\* the provider is absent, or its call or the parse of its answer fails
ProviderFails ==
    \/ args.provider.kind # "json"
    \/ \E i \in 1..Len(args.provider.reasons) :
           args.provider.reasons[i].bad # ""

\* C16: for every provider behaviour (absent, raising, answering non-JSON,
\* JSON of the wrong shape, reasons for some or none of the products)
\* generate_field_reasons returns normally with a non-empty reason for every
\* product of ranked_results; when the provider is absent or its call or parse
\* fails, every reason is the templated fallback (at most the first two rule
\* explanations and the first warning) of a product of that id.
C16_FallbackIsTotal ==
    ReasonsDone =>
        /\ out.raised = NoneStr
        /\ \A i \in 1..Len(args.ranked_results) :
               LET id == RecId(args.ranked_results[i].product)
               IN  /\ id \in DOMAIN out.reasons
                   /\ out.reasons[id] # ""
                   /\ ProviderFails =>
                         \E j \in 1..Len(args.ranked_results) :
                             /\ RecId(args.ranked_results[j].product) = id
                             /\ out.reasons[id]
                                   = ItemFallback(args.ranked_results[j],
                                                  args.crop)

\* the provider gave three sentences for one product and nothing for the
\* other: the first gets the provider's text cut to two sentences, the second
\* the fallback built from its warning
C16_Witness ==
    /\ ReasonsDone
    /\ args.provider.kind = "json"
    /\ ~ProviderFails
    /\ Len(args.ranked_results) = 2
    /\ "Brand A" \in DOMAIN out.reasons /\ out.reasons["Brand A"] = "One. Two."
    /\ "B" \in DOMAIN out.reasons
    /\ out.reasons["B"] = "Selected as a good overall fit for this corn field. "
                              \o "Watch: Low drought tolerance risk."

----------------------------------------------------------------------------
(* Properties of the ranking on twin records (SpecTwin).                   *)

TwinDone == fn = "score_products_for_field" /\ pc = "done" /\ "twin" \in DOMAIN args

\* C17: two field records that agree on environment and disease_risk but
\* differ in geometry, acres, id, name, county or state get identical results
\* from score_products_for_field, for every crop and management.
C17_BoundaryDoesNotInterfere == TwinDone => out[1] = out[2]

\* two records differing in all six of those keys were ranked, and products
\* were kept
C17_Witness ==
    /\ TwinDone
    /\ args.selected_field.geometry # args.twin.geometry
    /\ args.selected_field.acres # args.twin.acres
    /\ args.selected_field.id # args.twin.id
    /\ args.selected_field.name # args.twin.name
    /\ args.selected_field.county # args.twin.county
    /\ args.selected_field.state # args.twin.state
    /\ Len(out[1]) >= 2

----------------------------------------------------------------------------
(* Stress and disease aggregation of the structured engine (SpecScoring),  *)
(* read off the component scores calculate_composite_score returns.        *)

\* the risk-weighted aggregate of the stress sub-factors, the emergence
\* weight being its risk times emergence_factor
StressAggregate(product, requirements, emergence_factor) ==
    Aggregate(
        Factor(RLt(Rat(2, 10), requirements.drought_risk),
               match_tolerance_to_risk(product.drought_tolerance,
                                       requirements.drought_risk),
               requirements.drought_risk)
        \o Factor(RLt(Rat(3, 10), requirements.emergence_challenge),
                  match_tolerance_to_risk(product.emergence_vigor,
                                          requirements.emergence_challenge),
                  RMul(requirements.emergence_challenge, emergence_factor)))

\* one disease the product is rated for, with weight = risk
DiseasePair(rating, risk) ==
    Factor(RLt(Rat(1, 10), risk) /\ rating # None,
           match_tolerance_to_risk(rating, risk), risk)

CornDiseaseAggregate(product, requirements) ==
    Aggregate(
        DiseasePair(product.gray_leaf_spot, requirements.gls_risk)
        \o DiseasePair(product.northern_leaf_blight, requirements.nclb_risk)
        \o DiseasePair(product.tar_spot, requirements.tar_spot_risk)
        \o DiseasePair(product.gosss_wilt, requirements.gosss_wilt_risk))

\* SCN weighs risk * 1.5; IDC weighs its risk times idc_factor
SoyDiseaseAggregate(product, requirements, idc_factor) ==
    Aggregate(
        DiseasePair(product.sds_rating, requirements.sds_risk)
        \o DiseasePair(product.phytophthora_field, requirements.phytophthora_risk)
        \o DiseasePair(product.white_mold, requirements.white_mold_risk)
        \o DiseasePair(product.frogeye_leaf_spot, requirements.frogeye_risk)
        \o Factor(RLt(Rat(3, 10), requirements.scn_risk),
                  score_scn_resistance(product.scn_source, requirements.scn_risk,
                                       requirements.scn_source_history),
                  RMul(requirements.scn_risk, Rat(15, 10)))
        \o Factor(RLt(Rat(3, 10), requirements.idc_risk)
                      /\ product.idc_tolerance # None,
                  match_tolerance_to_risk(product.idc_tolerance,
                                          requirements.idc_risk),
                  RMul(requirements.idc_risk, idc_factor)))

DiseaseAggregate(idc_factor) ==
    IF args.crop = "corn"
    THEN CornDiseaseAggregate(args.product, args.requirements)
    ELSE SoyDiseaseAggregate(args.product, args.requirements, idc_factor)

\* C18 as stated: each sub-factor (a disease or IDC the product is rated for,
\* drought, emergence, SCN) whose risk exceeds its materiality threshold
\* contributes a (score, weight) pair with weight equal to its risk, except
\* SCN whose weight is risk*1.5; the result is sum(score*weight)/sum(weight)
\* over the contributing sub-factors, and 0.8 when none contributes.
C18_WeightIsRisk ==
    CompositeDone =>
        /\ out[2].stress_tolerance
              = RMul(StressAggregate(args.product, args.requirements, RInt(1)),
                     RInt(100))
        /\ out[2].disease_tolerance = RMul(DiseaseAggregate(RInt(1)), RInt(100))

\* C18 amended: the same, with the weight equal to the risk except for
\* emergence, whose weight is risk*0.7, and for SCN and IDC, whose weight is
\* risk*1.5.
C18_WeightsAsCoded ==
    CompositeDone =>
        /\ out[2].stress_tolerance
              = RMul(StressAggregate(args.product, args.requirements,
                                     Rat(7, 10)),
                     RInt(100))
        /\ out[2].disease_tolerance
              = RMul(DiseaseAggregate(Rat(15, 10)), RInt(100))

\* a rated soybean variety scored with drought, emergence, SCN and IDC all
\* contributing, where the emergence and IDC weights change both aggregates
C18_Witness ==
    /\ CompositeDone
    /\ args.crop = "soybean"
    /\ args.product.drought_tolerance # None
    /\ args.product.sds_rating # None
    /\ RLt(Rat(2, 10), args.requirements.drought_risk)
    /\ RLt(Rat(3, 10), args.requirements.emergence_challenge)
    /\ RLt(Rat(3, 10), args.requirements.scn_risk)
    /\ RLt(Rat(3, 10), args.requirements.idc_risk)
    /\ out[2].stress_tolerance
          # RMul(StressAggregate(args.product, args.requirements, RInt(1)),
                 RInt(100))
    /\ out[2].disease_tolerance # RMul(DiseaseAggregate(RInt(1)), RInt(100))

\* the names the lookup table of score_scn_resistance lists
ListedSources == {"PI 88788", "Peking", "PI 89772", "PI 437654", "Hartwig"}

\* C21: the SCN base score (the result on an empty planting history, where
\* neither the penalty nor the bonus applies) is 0.7 for "PI 88788", 0.85 for
\* "Peking", 0.9 for "PI 437654", and 0.1 for an absent source, the source
\* "None" and every source name that is not in the lookup table.
C21_BaseScoreLookup ==
    (ScnDone /\ args.source_history = <<>>) =>
        /\ args.scn_source = "PI 88788" => out = Rat(7, 10)
        /\ args.scn_source = "Peking" => out = Rat(85, 100)
        /\ args.scn_source = "PI 437654" => out = Rat(9, 10)
        /\ args.scn_source \notin ListedSources => out = Rat(1, 10)

----------------------------------------------------------------------------
(* Properties of the FeatureExtractor derivations (SpecFeatures).          *)

TargetDone == fn = "derive_target_maturity" /\ pc = "done"

\* the largest maturity key whose required GDD is <= mean GDD minus the
\* safety margin, the default when no key qualifies
LargestQualifying(rows, available_gdd, default) ==
    LET qualifying == {r[1] : r \in {q \in rows : q[2] <= available_gdd}}
    IN  IF qualifying = {} THEN default
        ELSE CHOOSE k \in qualifying : \A j \in qualifying : RLeq(j, k)

\* the margin of the table, else 100 for corn and 150 for soybean
SafetyMargin(gdd_conversion, crop) ==
    IF gdd_conversion[crop].safety # None THEN gdd_conversion[crop].safety
    ELSE IF crop = "corn" THEN 100 ELSE 150

TargetOptimum ==
    LargestQualifying(args.gdd_conversion[args.crop].rows,
                      args.gdd_mean
                         - SafetyMargin(args.gdd_conversion, args.crop),
                      IF args.crop = "corn" THEN RInt(100) ELSE RInt(3))

\* C22: derive_target_maturity: when mean GDD is available, the optimum is
\* the largest maturity key of the crop's table whose required GDD is <= mean
\* GDD minus the safety margin (table value, else 100 corn / 150 soybean),
\* the default 100 / 3.0 when no entry qualifies, and the window is
\* (opt-3, opt, opt+2) for corn and (opt-0.5, opt, opt+0.3) for soybean; when
\* mean GDD is absent the window is (105,110,115) / (2.5,3.0,3.5).  In every
\* case min < opt < max.
C22_TargetWindow ==
    TargetDone =>
        /\ (args.gdd_mean # None /\ args.crop = "corn") =>
              out = <<RSub(TargetOptimum, RInt(3)), TargetOptimum,
                      RAdd(TargetOptimum, RInt(2))>>
        /\ (args.gdd_mean # None /\ args.crop = "soybean") =>
              out = <<RSub(TargetOptimum, Rat(5, 10)), TargetOptimum,
                      RAdd(TargetOptimum, Rat(3, 10))>>
        /\ (args.gdd_mean = None /\ args.crop = "corn") =>
              out = <<RInt(105), RInt(110), RInt(115)>>
        /\ (args.gdd_mean = None /\ args.crop = "soybean") =>
              out = <<Rat(25, 10), RInt(3), Rat(35, 10)>>
        /\ RLt(out[1], out[2]) /\ RLt(out[2], out[3])

DroughtDone == fn = "derive_drought_risk" /\ pc = "done"

\* the sum of the additive terms that apply; a missing value adds nothing
AdditiveTerms(soil, weather) ==
    LET term(present, applies, amount) ==
            IF present /\ applies THEN amount ELSE RInt(0)
        has(x) == x # NoValue
    IN  RAdd(RAdd(term(has(soil.aws_0_100),
                       RLt(soil.aws_0_100, RInt(15)), Rat(2, 10)),
                  term(has(soil.aws_0_100),
                       RLt(RInt(25), soil.aws_0_100), RNeg(Rat(1, 10)))),
             RAdd(term(has(soil.sand_pct),
                       RLt(RInt(50), soil.sand_pct), Rat(15, 100)),
                  RAdd(term(has(weather.growing_season_precip_mm),
                            RLt(weather.growing_season_precip_mm, RInt(450)),
                            Rat(2, 10)),
                       term(has(weather.precip_cv),
                            RLt(Rat(3, 10), weather.precip_cv), Rat(1, 10)))))

IrrigationMultiplier(irrigation) ==
    CASE irrigation = "pivot" -> Rat(3, 10)
      [] irrigation = "drip"  -> Rat(4, 10)
      [] OTHER                -> RInt(1)

\* C23: derive_drought_risk returns the clamp to [0,1] of m * (0.3 + a), a the
\* sum of the applicable additive terms (+0.2 storage < 15, -0.1 storage > 25,
\* +0.15 sand > 50, +0.2 precipitation < 450, +0.1 precipitation CV > 0.3, a
\* missing value adding nothing) and m 0.3 for pivot, 0.4 for drip, 1
\* otherwise; hence risk(pivot) <= risk(drip) <= risk(none) on the same soil
\* and weather.
C23_DroughtRisk ==
    DroughtDone =>
        /\ out = RMin(RInt(1), RMax(RInt(0),
                    RMul(IrrigationMultiplier(args.irrigation),
                         RAdd(Rat(3, 10),
                              AdditiveTerms(args.soil, args.weather)))))
        /\ RLeq(derive_drought_risk(args.soil, args.weather, "pivot"),
                derive_drought_risk(args.soil, args.weather, "drip"))
        /\ RLeq(derive_drought_risk(args.soil, args.weather, "drip"),
                derive_drought_risk(args.soil, args.weather, "none"))

DiseaseDone == fn = "derive_disease_risks" /\ pc = "done"

\* C24: derive_disease_risks computes only the requested crop's diseases: a
\* corn call returns exactly the keys gls, nclb, tar_spot, gosss_wilt and a
\* soybean call exactly sds, scn, phytophthora, white_mold, idc; every
\* returned value is at most 1.0; and a state, a disease or a whole table
\* missing from the baseline data yields a result, not an error.
C24_DiseaseRisks ==
    DiseaseDone =>
        /\ args.crop = "corn" =>
              DOMAIN out = {"gls", "nclb", "tar_spot", "gosss_wilt"}
        /\ args.crop = "soybean" =>
              DOMAIN out = {"sds", "scn", "phytophthora", "white_mold", "idc"}
        /\ \A k \in DOMAIN out : RLeq(out[k], RInt(1))
        /\ (args.state = "ZZ" /\ args.crop = "corn") =>
              /\ out.nclb = Rat(3, 10)
              /\ out.tar_spot = Rat(2, 10)
              /\ out.gosss_wilt = Rat(2, 10)
        /\ (args.disease_baselines = <<>> /\ args.crop = "soybean"
                /\ args.soil.drainage_class = "Well drained") =>
              out.sds = Rat(3, 10)

\* a corn call whose gray leaf spot chain exceeds 1 and was capped, on a
\* state the table lacks for the other diseases
C24_Witness ==
    /\ DiseaseDone
    /\ args.crop = "corn"
    /\ args.state = "IA"
    /\ args.management.previous_crop = "corn"
    /\ args.management.tillage = "no-till"
    /\ "corn" \in DOMAIN args.disease_baselines
    /\ "tar_spot" \notin DOMAIN args.disease_baselines["corn"]
    /\ out.gls = RInt(1)
    /\ out.tar_spot = Rat(2, 10)

----------------------------------------------------------------------------
(* The corn maturity filter of the dict-based scorer (SpecScoring).        *)

\* a herbicide of the program asks for a trait the hybrid lacks
CornLacksTrait ==
    \/ /\ "Roundup" \in args.management.herbicide_program
       /\ "RR2" \notin args.hybrid.herbicide_traits
    \/ /\ "Liberty" \in args.management.herbicide_program
       /\ "LL" \notin args.hybrid.herbicide_traits

RmTooLong ==
    "RM " \o ToString(args.hybrid.relative_maturity) \o " too long for "
        \o ToString(args.field.environment.gdd_normal) \o " GDD zone"

RmBorderline ==
    "RM " \o ToString(args.hybrid.relative_maturity)
        \o " is borderline for this zone"

\* C25: with margin = gdd_normal - (25*RM + 100), calculate_corn_score returns
\* filtered=true with score 0 if and only if margin < -100 or a required
\* herbicide trait is missing; a margin of exactly -100 is not filtered by
\* maturity; when margin < -100 the reason is the RM-too-long one, also when
\* a herbicide trait is missing as well; otherwise the maturity sub-score is
\* 60 with a borderline warning for -100 <= margin < 0, 85 for
\* 0 <= margin < 100 and 100 for margin >= 100.
C25_CornMaturityFilter ==
    CornDone =>
        /\ out.filtered <=> (CornMargin < -100 \/ CornLacksTrait)
        /\ out.filtered => out.score = RInt(0)
        /\ CornMargin < -100 => out.reason = RmTooLong
        /\ (out.filtered /\ CornMargin >= -100) => out.reason # RmTooLong
        /\ ~out.filtered =>
              /\ CornMargin < 0 =>
                    /\ out.scores.maturity = RInt(60)
                    /\ InSeq(RmBorderline, out.warnings)
              /\ (0 <= CornMargin /\ CornMargin < 100) =>
                    /\ out.scores.maturity = RInt(85)
                    /\ ~InSeq(RmBorderline, out.warnings)
              /\ CornMargin >= 100 =>
                    /\ out.scores.maturity = RInt(100)
                    /\ ~InSeq(RmBorderline, out.warnings)

\* a hybrid at margin exactly -100 was scored, not filtered
C25_Witness ==
    /\ CornDone
    /\ CornMargin = -100
    /\ ~out.filtered
    /\ out.scores.maturity = RInt(60)

----------------------------------------------------------------------------
(* The ratio-based disease scoring (SpecRatio).                            *)

RatioDone == fn = "disease_scores" /\ pc = "done"

InThirtyToHundred(x) == RLt(RInt(30), x) /\ RLeq(x, RInt(100))

\* C26: for every disease risk >= 0 (0 included) and every trait rating in
\* 1..9, each per-disease score min(100, trait/max(risk,1)*50 + 30) is defined
\* and lies in (30, 100], and so does the average of the scores.
C26_RatioScoreDefined ==
    RatioDone =>
        /\ \A i \in 1..2 :
              /\ InThirtyToHundred(out.disease_scores[i])
              /\ out.disease_scores[i]
                    = RMin(RInt(100),
                           RAdd(RMul(RDiv(RInt(args.traits[i]),
                                          RMax(RInt(args.risks[i]), RInt(1))),
                                     RInt(50)),
                                RInt(30)))
        /\ InThirtyToHundred(out.disease)

\* a score was computed at risk 0: rating 1 gives 1/1*50 + 30 = 80
C26_Witness ==
    /\ RatioDone
    /\ args.risks[1] = 0
    /\ args.traits[1] = 1
    /\ out.disease_scores[1] = RInt(80)

----------------------------------------------------------------------------
(* The per-field management controls (SpecLock).                           *)

PageKeys == {_get_field_key(selected_fields[i]) : i \in 1..Len(selected_fields)}

Locked(fk) == Get(session_state, <<"mgmt_locked", fk>>, FALSE)

Override(fk) == Get(session_state, <<"mgmt_override", fk>>, FALSE)

HasSnapshot(fk) == <<"mgmt_saved", fk>> \in DOMAIN session_state

\* the management line 1143 used for a field is the snapshot exactly when the
\* override flag is set and a snapshot exists, else the sidebar management
UsedAsStated ==
    \A fk \in PageKeys :
        (pc = "page" /\ fk \in DOMAIN out.used) =>
            out.used[fk] = IF Override(fk) /\ HasSnapshot(fk)
                           THEN session_state[<<"mgmt_saved", fk>>]
                           ELSE default_management

\* from a press of Lock until the override flag is cleared (history holds
\* what the last press captured), a field is scored with the captured values
UsedAsCaptured ==
    \A fk \in PageKeys :
        (pc = "page" /\ fk \in DOMAIN history /\ fk \in DOMAIN out.used) =>
            out.used[fk] = history[fk]

\* a step that writes a snapshot is a press of Lock on that field
SnapshotOnlyByLock ==
    \A fk \in PageKeys :
        (/\ HasSnapshot(fk)'
         /\ ~HasSnapshot(fk)
               \/ session_state'[<<"mgmt_saved", fk>>]
                     # session_state[<<"mgmt_saved", fk>>])
        => (/\ fk \in DOMAIN history'
            /\ history'[fk] = session_state'[<<"mgmt_saved", fk>>]
            /\ \A k \in DOMAIN history' \ {fk} :
                  k \in DOMAIN history /\ history'[k] = history[k])

\* C27: the management used to score field f is the saved per-field snapshot
\* if and only if f's override flag is set and a snapshot exists, otherwise
\* the sidebar management; a snapshot is written only by pressing Lock; after
\* Lock the management used for f equals the values captured at Lock time,
\* through any later change of the sidebar management, any edit of the
\* per-field widgets and Unlock, until the override flag is cleared or Lock
\* is pressed again; the override flag without a lock leaves f scored with
\* the sidebar management.
C27_EffectiveManagement ==
    /\ [](UsedAsStated /\ UsedAsCaptured)
    /\ [][SnapshotOnlyByLock]_vars

\* the buttons and widgets of a field as the page shows them
LockEnabled(fk) == fk \in DOMAIN out.controls /\ ~out.controls[fk].locked

UnlockEnabled(fk) ==
    /\ fk \in DOMAIN out.controls
    /\ out.controls[fk].unlock
    /\ out.controls[fk].locked

\* the step changes the locked, override or saved entry of a field
LockEntriesChange(fk) ==
    \E name \in {"mgmt_locked", "mgmt_override", "mgmt_saved"} :
        \/ (<<name, fk>> \in DOMAIN session_state)
               # (<<name, fk>> \in DOMAIN session_state')
        \/ /\ <<name, fk>> \in DOMAIN session_state
           /\ <<name, fk>> \in DOMAIN session_state'
           /\ session_state'[<<name, fk>>] # session_state[<<name, fk>>]

LockStateInvariant ==
    pc = "page" =>
        \A fk \in PageKeys :
            /\ Locked(fk) => (Override(fk) /\ HasSnapshot(fk))
            /\ LockEnabled(fk) => ~Locked(fk)
            /\ UnlockEnabled(fk) => Locked(fk)

\* a step that clears a locked flag changes nothing else of the session
UnlockChangesOnlyLocked ==
    \A fk \in PageKeys :
        (Locked(fk) /\ ~Locked(fk)') =>
            /\ session_state'
                  = [session_state EXCEPT ![<<"mgmt_locked", fk>>] = FALSE]
            /\ default_management' = default_management

\* a step changes the locked, override and saved entries of one field at most
OneFieldPerStep ==
    \A fk \in PageKeys : \A other \in PageKeys \ {fk} :
        (pc = "page" /\ LockEntriesChange(fk)) => ~LockEntriesChange(other)

----------------------------------------------------------------------------
(* Ties in the ranking (SpecRank).                                         *)

\* the position of a returned product in the catalog it was taken from
CatalogIndex(product) ==
    CHOOSE i \in 1..Len(Products(args.crop)) : Products(args.crop)[i] = product

\* C29: in the list returned by score_products_for_field, two non-filtered
\* products of equal composite score appear in the same relative order as in
\* the catalog list.
C29_StableTies ==
    RankDone =>
        \A k, l \in 1..Len(out) :
            k < l /\ out[k].result.score = out[l].result.score
                => CatalogIndex(out[k].product) < CatalogIndex(out[l].product)

\* two products of equal score are returned next to each other behind a
\* product of higher score that follows them in the catalog
C29_Witness ==
    /\ RankDone
    /\ Len(out) = 3
    /\ out[2].result.score = out[3].result.score
    /\ RLt(out[2].result.score, out[1].result.score)
    /\ CatalogIndex(out[2].product) < CatalogIndex(out[3].product)
    /\ CatalogIndex(out[3].product) < CatalogIndex(out[1].product)


----------------------------------------------------------------------------
(* The Peking bonus of calculate_soy_score (SpecScoring).                  *)

\* the result for the scored variety with another SCN source, all else equal
OtherSourceResult ==
    calculate_soy_score([args.variety EXCEPT !.scn_source = "PI 88788"],
                        args.field, args.management)

\* C30: in calculate_soy_score, when the field's SCN risk is >= 7 and the
\* variety's scn_source is "Peking", the +10 Peking bonus raises the disease
\* sub-score, and hence the composite, above that of an otherwise identical
\* variety with a different SCN source, and the "Peking SCN source"
\* explanation is added.
C30_PekingBonus ==
    (/\ SoyDone
     /\ ~out.filtered
     /\ args.field.disease_risk.scn >= 7
     /\ args.variety.scn_source = "Peking") =>
        /\ InSeq("Peking SCN source - good for resistant populations",
                 out.explanations)
        /\ RLt(OtherSourceResult.scores.disease, out.scores.disease)
        /\ RLt(OtherSourceResult.score, out.score)

====
